---- MODULE Spec2Model ----
(***************************************************************************)
(* Session / event state machine of the realtime translator client.        *)
(*                                                                         *)
(* The App component (src/unnamed/part_000) and the dispatcher hook        *)
(* (src/src/app/hooks/useHandleServerEvent.ts) are React code.  A handler  *)
(* reads the state of the render that created it and queues its writes;    *)
(* the writes are visible to the next render, whose effects then run.     *)
(* Every operator that models a handler therefore takes two records:      *)
(*     R  the render it closes over (state is read from R),               *)
(*     S  the live store (refs are read from S, every write goes to S).   *)
(* An action runs one handler, re-renders and runs the effects whose       *)
(* dependencies changed (RunEffects), and commits the result.              *)
(*                                                                         *)
(* The data-channel "message" listener is registered once per connection   *)
(* (part_000:751-753) and calls the handleServerEvent function returned by *)
(* the hook in the render that called connectToRealtime (the hook returns  *)
(* the function itself, useHandleServerEvent.ts:429, not a ref).  The      *)
(* dispatcher of a connection therefore reads the props of that render:    *)
(* they are kept in the connection's field hv.                             *)
(***************************************************************************)
EXTENDS Integers, Sequences, FiniteSets, TLC

\* ------------------------------------------------------------------ bounds
MaxConn == 2            \* connection setups started in one run
NumLangs == 3           \* languages offered by the modal that are considered
MaxItems == 2           \* distinct conversation item ids the remote uses
MaxText == 2            \* longest message text (in tokens) that is tracked
MaxCalls == 2           \* distinct function-call ids the remote uses
MaxRank == 3            \* longest text the classifier ranks on its own
MaxLog == 3             \* longest Event Log that is kept whole

\* --------------------------------------------------------------- constants
Null == "null"

\* LanguageSelectionModal.tsx:18-29: the codes the modal offers.
LANGUAGES == <<"en", "zh", "ja", "ko", "ru", "ar", "hi", "es", "fr", "de">>

\* The order in which the model draws them: the first NumLangs can be
\* selected or restored.
Offered == <<"en", "es", "fr", "zh", "de", "ja", "ko", "ru", "ar", "hi">>

ModalLangs ==
  {Offered[i] : i \in 1..NumLangs} \cap {LANGUAGES[i] : i \in 1..Len(LANGUAGES)}

\* JavaScript truthiness of a string-or-null value.
Truthy(x) == x # Null /\ x # ""

ConnIds == 1..MaxConn
ItemIds == 1..MaxItems
CallIds == 1..MaxCalls

\* The fixed voice-activity-detection profile (part_000:814-820,
\* useHandleServerEvent.ts:205-211).
ServerVad ==
  [type |-> "server_vad", threshold |-> "0.5", prefix_padding_ms |-> 300,
   silence_duration_ms |-> 200, create_response |-> TRUE]

\* The configured agent set (selectedAgentConfigSet): agent name -> the names
\* that have custom tool logic, and the language pair its instructions were
\* last rewritten for (<<>>: the instructions of the configuration file).
\* The second agent has tool logic under the reserved name transferAgents.
AgentNames == {"translator", "helper"}

AgentSet ==
  [a \in AgentNames |->
     [toolLogic |-> IF a = "translator" THEN {"lookup"} ELSE {"transferAgents"},
      instructions |-> <<>>]]

\* selectedAgentConfigSet before the configuration is loaded (null).
NoAgentSet == [loaded |-> FALSE, agents |-> AgentSet]

\* JavaScript null as a turn-detection policy.
NoTurnDetection == [type |-> "null"]

\* --------------------------------------------------------------- variables
VARIABLES
  mounted,                  \* the component has mounted (first effects ran)
  sessionStatus,            \* part_000:223
  selectedSourceLanguage,   \* part_000:208
  selectedTargetLanguage,   \* part_000:210
  detectedLanguage,         \* part_000:230
  secondLanguage,           \* part_000:231
  isRecording,              \* part_000:229
  selectedAgentName,        \* part_000:213
  selectedAgentConfigSet,   \* part_000:214
  dataChannel,              \* part_000:218 (state): connection id or 0
  pcRef,                    \* part_000:219: connection id or 0
  dcRef,                    \* part_000:220: connection id or 0
  audioTrackRef,            \* part_000:222: connection id or 0
  conns,                    \* every connection setup started so far
  nConn,                    \* number of setups started
  transcriptItems,          \* the Transcript Store, in insertion order
  calls,                    \* function calls dispatched so far, by call id
  sent,                     \* client events transmitted by the last action
  loggedEvents,             \* EventContext.tsx:17: entries the last action appended
                            \* (the whole log under SpecEventLog)
  deviceTracks,             \* tracks acquired outside a connection setup
  buttonStateRef,           \* part_000:201-204
  buttonListener,           \* the characteristicvaluechanged listener
  hist                      \* observations of the last action (for the claims)

vars == <<mounted, sessionStatus, selectedSourceLanguage, selectedTargetLanguage,
          detectedLanguage, secondLanguage, isRecording, selectedAgentName,
          selectedAgentConfigSet, dataChannel, pcRef, dcRef, audioTrackRef,
          conns, nConn, transcriptItems, calls, sent, loggedEvents,
          deviceTracks, buttonStateRef, buttonListener, hist>>

\* The props a dispatcher closes over (useHandleServerEvent.ts:38-55).
NoView ==
  [isRecording |-> FALSE, selectedSourceLanguage |-> "",
   selectedTargetLanguage |-> "", selectedAgentName |-> "",
   selectedAgentConfigSet |-> NoAgentSet, itemIds |-> {}]

\* sender is the track the audio sender of the peer connection holds (0 for
\* none): the track of connection c has id c.
NoConn ==
  [stage |-> "none", pc |-> "none", dc |-> "none", track |-> "none",
   enabled |-> FALSE, sender |-> 0, created |-> FALSE, cancelled |-> FALSE,
   hv |-> NoView]

\* The tracks acquired outside a connection setup: the default device of the
\* mount effect (part_000:1850-1898) and the device the user selects
\* (part_000:1435-1531).
DefaultTrack == MaxConn + 1
SelectedTrack == MaxConn + 2
DeviceTrackIds == {DefaultTrack, SelectedTrack}

NoTrack == [state |-> "none", enabled |-> FALSE]

\* The render a characteristicvaluechanged listener closed over
\* (part_000:1633-1635); state is "none", "pending" (the device is being
\* acquired) or "registered".
NoListener ==
  [state |-> "none", sessionStatus |-> "DISCONNECTED", dataChannel |-> 0,
   transcriptItems |-> <<>>]

NoHist == [op |-> "none", known |-> FALSE, detail |-> ""]

\* The live store as one record.
Cur ==
  [sessionStatus |-> sessionStatus,
   selectedSourceLanguage |-> selectedSourceLanguage,
   selectedTargetLanguage |-> selectedTargetLanguage,
   detectedLanguage |-> detectedLanguage,
   secondLanguage |-> secondLanguage,
   isRecording |-> isRecording,
   selectedAgentName |-> selectedAgentName,
   selectedAgentConfigSet |-> selectedAgentConfigSet,
   dataChannel |-> dataChannel,
   pcRef |-> pcRef, dcRef |-> dcRef, audioTrackRef |-> audioTrackRef,
   conns |-> conns, nConn |-> nConn,
   transcriptItems |-> transcriptItems,
   calls |-> calls,
   sent |-> <<>>,
   loggedEvents |-> <<>>,
   deviceTracks |-> deviceTracks,
   buttonStateRef |-> buttonStateRef,
   buttonListener |-> buttonListener,
   hist |-> NoHist]

Commit(S) ==
  /\ S.nConn <= MaxConn
  /\ sessionStatus' = S.sessionStatus
  /\ selectedSourceLanguage' = S.selectedSourceLanguage
  /\ selectedTargetLanguage' = S.selectedTargetLanguage
  /\ detectedLanguage' = S.detectedLanguage
  /\ secondLanguage' = S.secondLanguage
  /\ isRecording' = S.isRecording
  /\ selectedAgentName' = S.selectedAgentName
  /\ selectedAgentConfigSet' = S.selectedAgentConfigSet
  /\ dataChannel' = S.dataChannel
  /\ pcRef' = S.pcRef
  /\ dcRef' = S.dcRef
  /\ audioTrackRef' = S.audioTrackRef
  /\ conns' = S.conns
  /\ nConn' = S.nConn
  /\ transcriptItems' = S.transcriptItems
  /\ calls' = S.calls
  /\ sent' = S.sent
  /\ loggedEvents' = S.loggedEvents
  /\ deviceTracks' = S.deviceTracks
  /\ buttonStateRef' = S.buttonStateRef
  /\ buttonListener' = S.buttonListener
  /\ hist' = S.hist

\* ------------------------------------------------------------- media tracks

\* track.stop() on the track with id t (0: no track).
stopTrack(S, t) ==
  IF t = 0
    THEN S
    ELSE IF t \in ConnIds
      THEN [S EXCEPT !.conns[t].track = IF @ = "live" THEN "stopped" ELSE @]
      ELSE [S EXCEPT !.deviceTracks[t].state = IF @ = "live" THEN "stopped" ELSE @]

\* track.enabled = on, for the track with id t (0: no track).
setTrackEnabled(S, t, on) ==
  IF t = 0
    THEN S
    ELSE IF t \in ConnIds
      THEN [S EXCEPT !.conns[t].enabled = on]
      ELSE [S EXCEPT !.deviceTracks[t].enabled = on]

\* ---------------------------------------------------------------- Event Log

\* An event object without fields ({} in the source).
NoFields == [f \in {} |-> ""]

\* The name of a log entry (EventContext.tsx:34 and 39): the type of the
\* event, or "" when it has none, and the suffix, joined by a space and
\* trimmed; the name is kept as the sequence of its non-empty parts.
EventName(eventObj, eventNameSuffix) ==
  SelectSeq(<<IF "type" \in DOMAIN eventObj THEN eventObj.type ELSE "",
              eventNameSuffix>>,
            LAMBDA part : part # "")

\* EventContext.tsx:20: the event's own id, or a generated one when it has
\* none or an empty one (0).  An event_id is a positive number; uuidv4() is
\* unlike every id there is, and is kept as minus the position of the entry.
EventId(S, eventData) ==
  IF "event_id" \in DOMAIN eventData /\ eventData.event_id # 0
    THEN eventData.event_id
    ELSE 0 - (Len(S.loggedEvents) + 1)

\* EventContext.tsx:19-31: the entry is appended, collapsed (the timestamp
\* is not kept).
addLoggedEvent(S, direction, eventName, eventData) ==
  [S EXCEPT !.loggedEvents =
     Append(@, [id |-> EventId(S, eventData), direction |-> direction,
                eventName |-> eventName, eventData |-> eventData,
                expanded |-> FALSE])]

\* EventContext.tsx:33-36.
logClientEvent(S, eventObj, eventNameSuffix) ==
  addLoggedEvent(S, "client", EventName(eventObj, eventNameSuffix), eventObj)

\* EventContext.tsx:38-41.
logServerEvent(S, eventObj, eventNameSuffix) ==
  addLoggedEvent(S, "server", EventName(eventObj, eventNameSuffix), eventObj)

\* toggleExpand that opens the entry and never closes it.
toggleExpandOpen(S, id) ==
  [S EXCEPT !.loggedEvents =
     [i \in 1..Len(@) |->
        IF @[i].id = id THEN [@[i] EXCEPT !.expanded = TRUE] ELSE @[i]]]

\* EventContext.tsx:43-52.
toggleExpand(S, id) ==
  [S EXCEPT !.loggedEvents =
     [i \in 1..Len(@) |->
        IF @[i].id = id THEN [@[i] EXCEPT !.expanded = ~@] ELSE @[i]]]

\* ------------------------------------------------------- Session Negotiator

\* sendClientEvent transmitting without looking at the channel.
sendClientEventUnchecked(S, eventObj, eventNameSuffix) ==
  [logClientEvent(S, eventObj, eventNameSuffix)
     EXCEPT !.sent = Append(@, eventObj)]

\* part_000:250-264.  The event is logged and transmitted on the channel
\* dcRef points to if that channel is open; otherwise a diagnostic is logged
\* and the event is dropped.
sendClientEvent(S, eventObj, eventNameSuffix) ==
  IF S.dcRef # 0 /\ S.conns[S.dcRef].dc = "open"
    THEN [logClientEvent(S, eventObj, eventNameSuffix)
            EXCEPT !.sent = Append(@, eventObj)]
    ELSE logClientEvent(S, [attemptedEvent |-> eventObj.type],
                        "error.data_channel_not_open")

\* part_000:707-760, up to the first await (the credential fetch of
\* fetchEphemeralKey, part_000:691-693).  R is the render that calls it; the
\* listener wired at the end of the setup dispatches to that render's handler.
connectToRealtime(R, S) ==
  IF R.sessionStatus # "DISCONNECTED"
    THEN S
    ELSE LET c == S.nConn + 1 IN
         [logClientEvent(S, [url |-> "/session"], "fetch_session_token_request")
          EXCEPT
            !.sessionStatus = "CONNECTING",
            !.nConn = c,
            !.conns = [k \in ConnIds |-> IF k # c THEN S.conns[k] ELSE
               [NoConn EXCEPT
                  !.stage = "key",
                  !.hv = [isRecording |-> R.isRecording,
                          selectedSourceLanguage |-> R.selectedSourceLanguage,
                          selectedTargetLanguage |-> R.selectedTargetLanguage,
                          selectedAgentName |-> R.selectedAgentName,
                          selectedAgentConfigSet |-> R.selectedAgentConfigSet,
                          itemIds |-> {R.transcriptItems[i].itemId :
                                         i \in 1..Len(R.transcriptItems)}]]]]

\* A setup is suspended at one of its awaits.
InFlight(c) == conns[c].stage \in {"key", "media", "sdp"}

\* part_000:762-778.  Only the connection pcRef names is closed, and the
\* track its sender holds is stopped; a setup that is still suspended is not
\* referenced by pcRef and is left alone.
disconnectFromRealtime(S) ==
  LET p == S.pcRef
      S1 == IF p # 0
              THEN [stopTrack(S, S.conns[p].sender) EXCEPT
                      !.conns[p].pc = "closed",
                      !.conns[p].dc = IF @ = "none" THEN @ ELSE "closed",
                      !.pcRef = 0]
              ELSE S
  IN [logClientEvent(S1, NoFields, "disconnected") EXCEPT
        !.dataChannel = 0,
        !.sessionStatus = "DISCONNECTED",
        !.isRecording = FALSE,
        !.conns = [c \in ConnIds |->
                     IF S1.conns[c].stage \in {"key", "media", "sdp"}
                       THEN [S1.conns[c] EXCEPT !.cancelled = TRUE]
                       ELSE S1.conns[c]]]

\* ------------------------------------------- Session Configuration Builder

\* The pair updateSession names in the instructions (part_000:822-829 and
\* 925): each member falls back separately from the detected to the selected
\* language; <<>> stands for empty instructions.
SessionPair(R) ==
  LET sourceLang == IF Truthy(R.detectedLanguage)
                      THEN R.detectedLanguage ELSE R.selectedSourceLanguage
      targetLang == IF Truthy(R.secondLanguage)
                      THEN R.secondLanguage ELSE R.selectedTargetLanguage
  IN IF Truthy(sourceLang) /\ Truthy(targetLang)
       THEN <<sourceLang, targetLang>>
       ELSE IF Truthy(R.selectedSourceLanguage) /\ Truthy(R.selectedTargetLanguage)
              THEN <<R.selectedSourceLanguage, R.selectedTargetLanguage>>
              ELSE <<>>

\* part_000:812-820.
TurnDetection(R) == IF R.isRecording THEN NoTurnDetection ELSE ServerVad

\* part_000:802-1078.
updateSession(R, S, shouldTriggerResponse) ==
  LET S1 == sendClientEvent(S, [type |-> "input_audio_buffer.clear"],
                            "clear audio buffer on session update")
      S2 == sendClientEvent(S1,
              [type |-> "session.update", by |-> "updateSession",
               pair |-> SessionPair(R),
               turn_detection |-> TurnDetection(R)], "")
  IN IF /\ shouldTriggerResponse
        /\ R.sessionStatus = "CONNECTED"
        /\ Truthy(R.selectedSourceLanguage)
        /\ Truthy(R.selectedTargetLanguage)
        /\ ~Truthy(R.detectedLanguage)
        /\ ~Truthy(R.secondLanguage)
       THEN sendClientEvent(S2,
              [type |-> "conversation.item.create", item |-> "message",
               role |-> "system", text |-> "ready",
               pair |-> <<R.selectedSourceLanguage, R.selectedTargetLanguage>>], "")
       ELSE S2

\* ------------------------------------------------------------------ effects

\* part_000:302-306.
EffectAutoConnect(R, S) ==
  IF R.selectedAgentName # "" /\ R.sessionStatus = "DISCONNECTED"
    THEN connectToRealtime(R, S)
    ELSE S

\* part_000:308-454.  The agent's instructions are rewritten for the selected
\* pair when they do not name it yet; then the configuration is pushed.
EffectAgent(R, S) ==
  IF /\ R.sessionStatus = "CONNECTED"
     /\ R.selectedAgentConfigSet.loaded
     /\ R.selectedAgentName # ""
    THEN LET set == R.selectedAgentConfigSet.agents
             name == R.selectedAgentName
             want == <<R.selectedSourceLanguage, R.selectedTargetLanguage>>
             S1 == IF /\ name \in DOMAIN set
                      /\ Truthy(R.selectedSourceLanguage)
                      /\ Truthy(R.selectedTargetLanguage)
                      /\ set[name].instructions # want
                     THEN [S EXCEPT !.selectedAgentConfigSet.agents =
                             [set EXCEPT ![name].instructions = want]]
                     ELSE S
         IN updateSession(R, S1, TRUE)
    ELSE S

\* part_000:456-463.
EffectRecording(R, S) ==
  IF R.sessionStatus = "CONNECTED" THEN updateSession(R, S, FALSE) ELSE S

\* part_000:670-689.
EffectLanguages(R, S) ==
  IF R.sessionStatus = "CONNECTED" THEN updateSession(R, S, TRUE) ELSE S

\* One render pass: P is the previous render, R the new one; the effects whose
\* dependencies differ run in source order, all reading R, all writing to the
\* live store.
EffectPass(P, R) ==
  LET S1 == IF R.selectedAgentName # P.selectedAgentName
              THEN EffectAutoConnect(R, R) ELSE R
      S2 == IF \/ R.sessionStatus # P.sessionStatus
               \/ R.selectedAgentConfigSet # P.selectedAgentConfigSet
               \/ R.selectedAgentName # P.selectedAgentName
              THEN EffectAgent(R, S1) ELSE S1
      S3 == IF R.isRecording # P.isRecording
              THEN EffectRecording(R, S2) ELSE S2
      S4 == IF \/ R.detectedLanguage # P.detectedLanguage
               \/ R.secondLanguage # P.secondLanguage
               \/ R.sessionStatus # P.sessionStatus
              THEN EffectLanguages(R, S3) ELSE S3
  IN S4

\* The state a render reads (what useState returns): two stores render alike
\* when these agree.
Rendered(S) ==
  <<S.sessionStatus, S.selectedSourceLanguage, S.selectedTargetLanguage,
    S.detectedLanguage, S.secondLanguage, S.isRecording, S.selectedAgentName,
    S.selectedAgentConfigSet, S.dataChannel, S.transcriptItems>>

\* Re-render after a handler until the state settles.  P is the render the
\* handler ran in, S the store it left.
RECURSIVE RunEffects(_, _)
RunEffects(P, S) ==
  IF Rendered(P) = Rendered(S)
    THEN S
    ELSE RunEffects(S, EffectPass(P, S))

\* ------------------------------------------------------- Transcript Store

\* Message texts are sequences of tokens; the two markers the dispatcher
\* writes are single tokens.
Transcribing == <<"[Transcribing...]">>
Inaudible == <<"[inaudible]">>

HasItem(items, itemId) == \E i \in 1..Len(items) : items[i].itemId = itemId

\* addMessage (spec 4.1): a no-op when the id is present, else appended.
addTranscriptMessage(S, itemId, role, text, isHidden) ==
  IF HasItem(S.transcriptItems, itemId)
    THEN S
    ELSE [S EXCEPT !.transcriptItems =
            Append(@, [itemId |-> itemId, role |-> role, text |-> text,
                       status |-> IF isHidden THEN "DONE" ELSE "IN_PROGRESS",
                       isHidden |-> isHidden])]

\* updateMessage (spec 4.1): appends or replaces the text of the matching
\* item; a no-op when the id is unknown.
updateTranscriptMessage(S, itemId, newText, append) ==
  [S EXCEPT !.transcriptItems =
     [i \in 1..Len(@) |->
        IF @[i].itemId = itemId
          THEN [@[i] EXCEPT !.text = IF append THEN @ \o newText ELSE newText]
          ELSE @[i]]]

\* setStatus (spec 4.1): a no-op when the id is unknown.
updateTranscriptItemStatus(S, itemId, newStatus) ==
  [S EXCEPT !.transcriptItems =
     [i \in 1..Len(@) |->
        IF @[i].itemId = itemId
          THEN [@[i] EXCEPT !.status = newStatus]
          ELSE @[i]]]

\* ------------------------------------------------------ Language Classifier

\* The keys of languagePatterns in source order (useHandleServerEvent.ts:
\* 240-251).
PatternOrder == <<"en", "zh", "ja", "ko", "ru", "ar", "hi", "es", "fr", "de">>

\* A transcript is a sequence of characters; each character stands for a
\* class of characters and matches the patterns listed here
\* (useHandleServerEvent.ts:241-250): "eacute" is in the Spanish and in the
\* French class, a digit is in none.
Matches(ch) ==
  CASE ch = "a" -> {"en"}
    [] ch = "han" -> {"zh"}
    [] ch = "kana" -> {"ja"}
    [] ch = "hangul" -> {"ko"}
    [] ch = "cyrillic" -> {"ru"}
    [] ch = "arabic" -> {"ar"}
    [] ch = "devanagari" -> {"hi"}
    [] ch = "ntilde" -> {"es"}
    [] ch = "eacute" -> {"es", "fr"}
    [] ch = "ccedil" -> {"fr"}
    [] ch = "uuml" -> {"de"}
    [] OTHER -> {}

\* useHandleServerEvent.ts:254-258.
languageScores(transcript) ==
  [i \in 1..Len(PatternOrder) |->
     Cardinality({k \in 1..Len(transcript) : PatternOrder[i] \in Matches(transcript[k])})]

\* A sort that puts the later of two equal scores first.
RECURSIVE SortByScoreLast(_, _)
SortByScoreLast(scores, left) ==
  IF left = {}
    THEN <<>>
    ELSE LET best == CHOOSE i \in left :
                       \A j \in left :
                         \/ scores[i] > scores[j]
                         \/ scores[i] = scores[j] /\ i >= j
         IN <<best>> \o SortByScoreLast(scores, left \ {best})

\* Array.prototype.sort with (a, b) => b - a is stable: descending score,
\* equal scores in source order.
RECURSIVE SortByScore(_, _)
SortByScore(scores, left) ==
  IF left = {}
    THEN <<>>
    ELSE LET best == CHOOSE i \in left :
                       \A j \in left :
                         \/ scores[i] > scores[j]
                         \/ scores[i] = scores[j] /\ i <= j
         IN <<best>> \o SortByScore(scores, left \ {best})

\* useHandleServerEvent.ts:261-263: the languages that score, best first.
sortedLanguages(transcript) ==
  LET scores == languageScores(transcript)
      order == SortByScore(scores, 1..Len(PatternOrder))
      kept == SelectSeq(order, LAMBDA i : scores[i] > 0)
  IN [k \in 1..Len(kept) |-> PatternOrder[kept[k]]]

\* ------------------------------------------------- Server Event Dispatcher

\* useHandleServerEvent.ts:131-214.  H is the render the dispatcher closes
\* over; the policy is the fixed profile whatever the recording state.
updateSessionWithLanguages(H, S, lang1, lang2) ==
  sendClientEvent(S,
    [type |-> "session.update", by |-> "dispatcher",
     pair |-> <<lang1, lang2>>,
     turn_detection |-> ServerVad], "")

\* The notices the dispatcher sends as assistant messages
\* (useHandleServerEvent.ts:300-307 and 326-333).
Notice(kind, firstLang, pair) ==
  [type |-> "conversation.item.create", item |-> "message",
   role |-> "assistant", text |-> kind, detected |-> firstLang, pair |-> pair]

\* OnTranscriptionDelta completing the pair with a fallback language when only
\* one language scores and no pair is selected.
OnTranscriptionDeltaFallback(H, S, transcript) ==
  IF ~H.isRecording \/ transcript = <<>>
    THEN S
    ELSE LET sorted == sortedLanguages(transcript) IN
      IF Len(sorted) = 0
        THEN S
        ELSE
          LET firstLang == sorted[1]
              src == H.selectedSourceLanguage
              tgt == H.selectedTargetLanguage
              fallbackLang == IF firstLang = "en" THEN "es" ELSE "en"
              S1 == [S EXCEPT !.detectedLanguage = firstLang]
          IN IF Truthy(src) /\ Truthy(tgt)
               THEN IF firstLang = src
                      THEN updateSessionWithLanguages(H,
                             [S1 EXCEPT !.secondLanguage = tgt], firstLang, tgt)
                      ELSE IF firstLang = tgt
                        THEN updateSessionWithLanguages(H,
                               [S1 EXCEPT !.secondLanguage = src], firstLang, src)
                        ELSE updateSessionWithLanguages(H,
                               sendClientEvent(S1,
                                 Notice("not in pair", firstLang, <<src, tgt>>), ""),
                               src, tgt)
               ELSE IF Len(sorted) > 1
                      THEN IF firstLang # sorted[2]
                             THEN updateSessionWithLanguages(H,
                                    [S1 EXCEPT !.secondLanguage = sorted[2]],
                                    firstLang, sorted[2])
                             ELSE S1
                      ELSE updateSessionWithLanguages(H,
                             sendClientEvent(
                               [S1 EXCEPT !.secondLanguage = fallbackLang],
                               Notice("speak another", firstLang, <<>>), ""),
                             firstLang, fallbackLang)

\* useHandleServerEvent.ts:227-339.
OnTranscriptionDelta(H, S, transcript) ==
  IF ~H.isRecording \/ transcript = <<>>
    THEN S
    ELSE LET sorted == sortedLanguages(transcript) IN
      IF Len(sorted) = 0
        THEN S
        ELSE
          LET firstLang == sorted[1]
              src == H.selectedSourceLanguage
              tgt == H.selectedTargetLanguage
              S1 == [S EXCEPT !.detectedLanguage = firstLang]
          IN IF Truthy(src) /\ Truthy(tgt)
               THEN IF firstLang = src
                      THEN updateSessionWithLanguages(H,
                             [S1 EXCEPT !.secondLanguage = tgt], firstLang, tgt)
                      ELSE IF firstLang = tgt
                        THEN updateSessionWithLanguages(H,
                               [S1 EXCEPT !.secondLanguage = src], firstLang, src)
                        ELSE updateSessionWithLanguages(H,
                               sendClientEvent(S1,
                                 Notice("not in pair", firstLang, <<src, tgt>>), ""),
                               src, tgt)
               ELSE IF Len(sorted) > 1
                      THEN IF firstLang # sorted[2]
                             THEN updateSessionWithLanguages(H,
                                    [S1 EXCEPT !.secondLanguage = sorted[2]],
                                    firstLang, sorted[2])
                             ELSE S1
                      ELSE sendClientEvent(S1,
                             Notice("speak another", firstLang, <<>>), "")

\* useHandleServerEvent.ts:341-356.
OnSessionCreated(H, S, id) ==
  IF id # ""
    THEN LET S1 == [S EXCEPT !.sessionStatus = "CONNECTED"] IN
         IF Truthy(H.selectedSourceLanguage) /\ Truthy(H.selectedTargetLanguage)
           THEN updateSessionWithLanguages(H, S1, H.selectedSourceLanguage,
                                           H.selectedTargetLanguage)
           ELSE S1
    ELSE S

\* OnItemCreated relying on its own duplicate check alone: an id the render H
\* does not hold is appended without asking the store.
OnItemCreatedAppend(H, S, itemId, role, text) ==
  IF itemId = 0 \/ role = "" \/ itemId \in H.itemIds
    THEN S
    ELSE [S EXCEPT !.transcriptItems =
            Append(@, [itemId |-> itemId, role |-> role,
                       text |-> IF role = "user" /\ text = <<>>
                                  THEN Transcribing ELSE text,
                       status |-> "IN_PROGRESS", isHidden |-> FALSE])]

\* useHandleServerEvent.ts:358-377.  itemId 0 and role "" stand for a missing
\* field; the duplicate check reads the transcript of the render H.
OnItemCreated(H, S, itemId, role, text) ==
  IF itemId # 0 /\ itemId \in H.itemIds
    THEN S
    ELSE IF itemId # 0 /\ role # ""
           THEN addTranscriptMessage(S, itemId, role,
                  IF role = "user" /\ text = <<>> THEN Transcribing ELSE text,
                  FALSE)
           ELSE S

\* useHandleServerEvent.ts:379-389: only the empty transcript and the single
\* newline become the marker.
OnTranscriptionCompleted(H, S, itemId, transcript) ==
  LET finalTranscript == IF transcript = <<>> \/ transcript = <<"\n">>
                           THEN Inaudible ELSE transcript
  IN IF itemId # 0
       THEN updateTranscriptMessage(S, itemId, finalTranscript, FALSE)
       ELSE S

\* OnAudioTranscriptDelta creating the assistant message of a delta whose
\* item is not in the transcript.
OnAudioTranscriptDeltaUpsert(H, S, itemId, deltaText) ==
  IF itemId # 0
    THEN updateTranscriptMessage(
           addTranscriptMessage(S, itemId, "assistant", <<>>, FALSE),
           itemId, deltaText, TRUE)
    ELSE S

\* OnAudioTranscriptDelta writing the delta over the text instead of
\* appending it.
OnAudioTranscriptDeltaReplace(H, S, itemId, deltaText) ==
  IF itemId # 0
    THEN updateTranscriptMessage(S, itemId, deltaText, FALSE)
    ELSE S

\* useHandleServerEvent.ts:391-398.
OnAudioTranscriptDelta(H, S, itemId, deltaText) ==
  IF itemId # 0
    THEN updateTranscriptMessage(S, itemId, deltaText, TRUE)
    ELSE S

\* useHandleServerEvent.ts:419-425.
OnOutputItemDone(H, S, itemId) ==
  IF itemId # 0
    THEN updateTranscriptItemStatus(S, itemId, "DONE")
    ELSE S

\* useHandleServerEvent.ts:220-225: an absent status is "".
OnSessionStatus(H, S, status) ==
  IF status # "" THEN [S EXCEPT !.sessionStatus = status] ELSE S

\* ------------------------------------------- Function-Call / Agent-Transfer

\* The argument blob of a function call is one of: "" (absent), "invalid"
\* (not JSON), "null" (the JSON value null), or the name of the
\* destination_agent of a JSON object.
NoCall == [state |-> "unused", outputs |-> 0]

FunctionCallOutput(call_id, branch, did_transfer) ==
  [type |-> "conversation.item.create", item |-> "function_call_output",
   call_id |-> call_id, branch |-> branch, did_transfer |-> did_transfer]

\* The transmission of a function_call_output is counted per call id.
SendOutput(S, call_id, branch, did_transfer) ==
  LET S1 == sendClientEvent(S, FunctionCallOutput(call_id, branch, did_transfer), "")
  IN IF Len(S1.sent) > Len(S.sent)
       THEN [S1 EXCEPT !.calls[call_id].outputs = @ + 1]
       ELSE S1

\* useHandleServerEvent.ts:59-128, up to its first await.  JSON.parse throws
\* on a blob that is not JSON, and reading destination_agent of null throws:
\* the promise rejects and nothing is sent.
handleFunctionCall(H, S, name, call_id, arguments) ==
  IF arguments = "invalid"
    THEN [S EXCEPT !.calls[call_id].state = "threw"]
    ELSE
      LET set == H.selectedAgentConfigSet
          hasAgent == set.loaded /\ H.selectedAgentName \in DOMAIN set.agents
      IN IF hasAgent /\ name \in set.agents[H.selectedAgentName].toolLogic
           THEN [S EXCEPT !.calls[call_id].state = "pending"]
           ELSE IF name = "transferAgents"
             THEN IF arguments = "null"
                    THEN [S EXCEPT !.calls[call_id].state = "threw"]
                    ELSE LET found == set.loaded /\ arguments \in DOMAIN set.agents
                             S1 == IF found
                                     THEN [S EXCEPT !.selectedAgentName = arguments]
                                     ELSE S
                         IN [SendOutput(S1, call_id, "transfer", found)
                               EXCEPT !.calls[call_id].state = "done"]
             ELSE LET S1 == SendOutput(S, call_id, "fallback", FALSE)
                      S2 == sendClientEvent(S1, [type |-> "response.create"], "")
                  IN [S2 EXCEPT !.calls[call_id].state = "done"]

\* useHandleServerEvent.ts:400-417: the output items in order; an item is
\* dispatched when it is a function_call with a name and arguments.
RECURSIVE OnResponseDone(_, _, _)
OnResponseDone(H, S, output) ==
  IF output = <<>>
    THEN S
    ELSE LET o == Head(output)
             S1 == IF o.type = "function_call" /\ o.name # "" /\ o.arguments # ""
                     THEN handleFunctionCall(H, S, o.name, o.call_id, o.arguments)
                     ELSE S
         IN OnResponseDone(H, S1, Tail(output))

\* handleServerEvent ending the session on an event of a type it has no
\* case for.
handleServerEventStrict(H, S, ev) ==
  LET L == logServerEvent(S, ev, "") IN
  CASE ev.type = "session.status" -> OnSessionStatus(H, L, ev.status)
    [] ev.type = "conversation.item.input_audio_transcription.delta" ->
         OnTranscriptionDelta(H, L, ev.delta)
    [] ev.type = "session.created" -> OnSessionCreated(H, L, ev.id)
    [] ev.type = "conversation.item.created" ->
         OnItemCreated(H, L, ev.itemId, ev.role, ev.text)
    [] ev.type = "conversation.item.input_audio_transcription.completed" ->
         OnTranscriptionCompleted(H, L, ev.itemId, ev.transcript)
    [] ev.type = "response.audio_transcript.delta" ->
         OnAudioTranscriptDelta(H, L, ev.itemId, ev.delta)
    [] ev.type = "response.done" -> OnResponseDone(H, L, ev.output)
    [] ev.type = "response.output_item.done" -> OnOutputItemDone(H, L, ev.itemId)
    [] OTHER -> [L EXCEPT !.sessionStatus = "DISCONNECTED"]

\* useHandleServerEvent.ts:216-427.  An event of any other type falls
\* through the switch.
handleServerEvent(H, S, ev) ==
  LET L == logServerEvent(S, ev, "") IN
  CASE ev.type = "session.status" -> OnSessionStatus(H, L, ev.status)
    [] ev.type = "conversation.item.input_audio_transcription.delta" ->
         OnTranscriptionDelta(H, L, ev.delta)
    [] ev.type = "session.created" -> OnSessionCreated(H, L, ev.id)
    [] ev.type = "conversation.item.created" ->
         OnItemCreated(H, L, ev.itemId, ev.role, ev.text)
    [] ev.type = "conversation.item.input_audio_transcription.completed" ->
         OnTranscriptionCompleted(H, L, ev.itemId, ev.transcript)
    [] ev.type = "response.audio_transcript.delta" ->
         OnAudioTranscriptDelta(H, L, ev.itemId, ev.delta)
    [] ev.type = "response.done" -> OnResponseDone(H, L, ev.output)
    [] ev.type = "response.output_item.done" -> OnOutputItemDone(H, L, ev.itemId)
    [] OTHER -> L

\* cancelAssistantSpeech, part_000:1080-1104: the most recent assistant
\* message of the render is truncated unless it is DONE.
cancelAssistantSpeech(R, S) ==
  LET idx == {i \in 1..Len(R.transcriptItems) : R.transcriptItems[i].role = "assistant"}
  IN IF idx = {}
       THEN S
       ELSE LET last == R.transcriptItems[CHOOSE i \in idx : \A j \in idx : j <= i]
            IN IF last.status = "DONE"
                 THEN S
                 ELSE sendClientEvent(
                        sendClientEvent(S, [type |-> "conversation.item.truncate",
                                            item_id |-> last.itemId], ""),
                        [type |-> "response.cancel"],
                        "(cancel due to user interruption)")

\* dataChannel?.readyState === "open", read through the state of render R.
ChannelOpen(R, S) == R.dataChannel # 0 /\ S.conns[R.dataChannel].dc = "open"

\* part_000:1126-1157.
handleStartRecording(R, S) ==
  IF R.sessionStatus # "CONNECTED" \/ ~ChannelOpen(R, S)
    THEN S
    ELSE LET S1 == cancelAssistantSpeech(R, S)
             S2 == setTrackEnabled(S1, S1.audioTrackRef, TRUE)
             S3 == [S2 EXCEPT !.isRecording = TRUE]
         IN sendClientEvent(S3, [type |-> "input_audio_buffer.clear"],
                            "clear recording buffer")

\* part_000:1159-1192.
handleStopRecording(R, S) ==
  IF R.sessionStatus # "CONNECTED" \/ ~ChannelOpen(R, S) \/ ~R.isRecording
    THEN S
    ELSE LET S1 == setTrackEnabled(S, S.audioTrackRef, FALSE)
             S2 == [S1 EXCEPT !.isRecording = FALSE]
             S3 == sendClientEvent(S2, [type |-> "input_audio_buffer.commit"],
                                   "commit recording")
         IN sendClientEvent(S3, [type |-> "response.create"],
                            "trigger response recording")

\* part_000:1194-1201.
handleToggleRecording(R, S) ==
  IF R.isRecording THEN handleStopRecording(R, S) ELSE handleStartRecording(R, S)

\* handleLanguageSelection that keeps the detected languages.
handleLanguageSelectionKeeping(R, S, sourceLang, targetLang) ==
  LET S1 == [S EXCEPT !.selectedSourceLanguage = sourceLang,
                      !.selectedTargetLanguage = targetLang]
  IN IF R.sessionStatus = "CONNECTED"
       THEN LET S2 == sendClientEvent(S1, [type |-> "input_audio_buffer.clear"],
                                      "clear audio buffer on language change")
                set == R.selectedAgentConfigSet
                name == R.selectedAgentName
                S3 == IF /\ set.loaded /\ name # "" /\ name \in DOMAIN set.agents
                         /\ set.agents[name].instructions # <<sourceLang, targetLang>>
                        THEN [S2 EXCEPT !.selectedAgentConfigSet.agents =
                                [set.agents EXCEPT ![name].instructions =
                                   <<sourceLang, targetLang>>]]
                        ELSE S2
                S4 == updateSession(R, S3, TRUE)
            IN sendClientEvent(S4,
                 [type |-> "conversation.item.create", item |-> "message",
                  role |-> "system", text |-> "pair updated",
                  pair |-> <<sourceLang, targetLang>>], "")
       ELSE S1

\* part_000:486-667.  The modal only saves two different languages
\* (LanguageSelectionModal.tsx:51-58).  updateSession is called from the
\* handler, so it reads the state of the render before the selection.
handleLanguageSelection(R, S, sourceLang, targetLang) ==
  LET S1 == [S EXCEPT !.selectedSourceLanguage = sourceLang,
                      !.selectedTargetLanguage = targetLang,
                      !.detectedLanguage = "",
                      !.secondLanguage = ""]
  IN IF R.sessionStatus = "CONNECTED"
       THEN LET S2 == sendClientEvent(S1, [type |-> "input_audio_buffer.clear"],
                                      "clear audio buffer on language change")
                set == R.selectedAgentConfigSet
                name == R.selectedAgentName
                S3 == IF /\ set.loaded /\ name # "" /\ name \in DOMAIN set.agents
                         /\ set.agents[name].instructions # <<sourceLang, targetLang>>
                        THEN [S2 EXCEPT !.selectedAgentConfigSet.agents =
                                [set.agents EXCEPT ![name].instructions =
                                   <<sourceLang, targetLang>>]]
                        ELSE S2
                S4 == updateSession(R, S3, TRUE)
            IN sendClientEvent(S4,
                 [type |-> "conversation.item.create", item |-> "message",
                  role |-> "system", text |-> "pair updated",
                  pair |-> <<sourceLang, targetLang>>], "")
       ELSE S1

\* part_000:1219-1224.
handleSelectedAgentChange(R, S, newAgentName) ==
  [S EXCEPT !.selectedAgentName = newAgentName]

\* part_000:1852-1866, to the await of getUserMedia: the track audioTrackRef
\* names is stopped and the default device is requested.
resetAudioToDefault(S) ==
  [stopTrack(S, S.audioTrackRef) EXCEPT
     !.audioTrackRef = 0,
     !.deviceTracks[DefaultTrack] = [state |-> "acquiring", enabled |-> FALSE]]

\* part_000:1435-1459, to the first await of getUserMedia.  The listener
\* that trySetupBluetoothGMICService adds later (part_000:1518 and
\* 1633-1635) is the handler of the render R that made the call.
connectToBluetoothDevice(R, S) ==
  [stopTrack(S, S.audioTrackRef) EXCEPT
     !.audioTrackRef = 0,
     !.deviceTracks[SelectedTrack] = [state |-> "acquiring", enabled |-> FALSE],
     !.buttonListener = [state |-> "pending",
                         sessionStatus |-> R.sessionStatus,
                         dataChannel |-> R.dataChannel,
                         transcriptItems |-> R.transcriptItems]]

\* deviceAcquired that takes the session back to CONNECTING, as a new
\* negotiation would.
deviceAcquiredRenegotiating(S, d) ==
  [S EXCEPT !.deviceTracks[d] = [state |-> "live", enabled |-> FALSE],
            !.audioTrackRef = d,
            !.sessionStatus = "CONNECTING"]

\* The track of device d arrives (part_000:1486-1518 and 1868-1891): it is
\* disabled, audioTrackRef names it and it replaces the track of the audio
\* sender of the connection pcRef names; for the selected device the button
\* listener is added.
deviceAcquired(S, d) ==
  LET S1 == [S EXCEPT !.deviceTracks[d] = [state |-> "live", enabled |-> FALSE],
                      !.audioTrackRef = d]
      S2 == IF S1.pcRef # 0
              THEN [S1 EXCEPT !.conns[S1.pcRef].sender = d]
              ELSE S1
  IN IF d = SelectedTrack
       THEN [S2 EXCEPT !.buttonListener.state = "registered"]
       ELSE S2

\* dcRef.current.send behind the test of part_000:1707 and 1740: the event is
\* transmitted when the channel is open; nothing is logged.
dcSend(S, eventObj) ==
  IF S.dcRef # 0 /\ S.conns[S.dcRef].dc = "open"
    THEN [S EXCEPT !.sent = Append(@, eventObj)]
    ELSE S

\* handleCharacteristicValueChanged for the button characteristic,
\* part_000:1682-1760: byte 1 is the button going down, byte 0 the button
\* coming up.  B is the render the listener closed over.
handleCharacteristicValueChanged(B, S, byte) ==
  IF byte = 1
    THEN
      LET S1 == [S EXCEPT !.buttonStateRef.isButtonPressed = TRUE] IN
      IF S1.buttonStateRef.wasRecordingStarted
        THEN S1
        ELSE LET S2 == cancelAssistantSpeech(B, S1) IN
             IF B.sessionStatus = "CONNECTED" /\ ChannelOpen(B, S2)
               THEN LET S3 == setTrackEnabled(S2, S2.audioTrackRef, TRUE)
                        S4 == dcSend(S3, [type |-> "input_audio_buffer.clear"])
                    IN [S4 EXCEPT !.isRecording = TRUE,
                                  !.buttonStateRef.wasRecordingStarted = TRUE]
               ELSE S2
    ELSE
      LET S1 == [S EXCEPT !.buttonStateRef.isButtonPressed = FALSE] IN
      IF ~S1.buttonStateRef.wasRecordingStarted
        THEN S1
        ELSE IF B.sessionStatus = "CONNECTED" /\ ChannelOpen(B, S1)
               THEN LET S2 == setTrackEnabled(S1, S1.audioTrackRef, FALSE)
                        S3 == dcSend(S2, [type |-> "input_audio_buffer.commit"])
                        S4 == dcSend(S3, [type |-> "response.create"])
                    IN [S4 EXCEPT !.isRecording = FALSE,
                                  !.buttonStateRef.wasRecordingStarted = FALSE]
               ELSE S1

\* ------------------------------------------------------------------ actions

\* What the last action was (read by the claims only).
Obs(S, h) == [S EXCEPT !.hist = h]

\* The first render and its effects (part_000:279-306, 466-483, 1226-1241,
\* 1850-1898).
\* The auto-connect effect runs in the first render, where no language is
\* selected, nothing is recording and no agent set is loaded; the effects
\* after it restore the stored preferences.  storedPair is <<>> when the
\* key-value store holds no pair; storedPTT is the stored pushToTalkUI.
Mount(storedPair, storedPTT) ==
  /\ ~mounted
  /\ mounted' = TRUE
  /\ LET R == Cur
         S1 == [R EXCEPT !.selectedAgentConfigSet = [loaded |-> TRUE, agents |-> AgentSet]]
         S2 == EffectAutoConnect(R, S1)
         S3 == IF storedPair # <<>>
                 THEN [S2 EXCEPT !.selectedSourceLanguage = storedPair[1],
                                 !.selectedTargetLanguage = storedPair[2],
                                 !.detectedLanguage = storedPair[1],
                                 !.secondLanguage = storedPair[2]]
                 ELSE [S2 EXCEPT !.selectedSourceLanguage = "en",
                                 !.selectedTargetLanguage = "es"]
         S4 == [S3 EXCEPT !.isRecording = storedPTT]
         S5 == resetAudioToDefault(S4)
     IN Commit(Obs(RunEffects(R, S5), [op |-> "mount", known |-> FALSE, detail |-> ""]))

\* onToggleConnection, part_000:1203-1210.
onToggleConnection(R, S) ==
  IF R.sessionStatus = "CONNECTED" \/ R.sessionStatus = "CONNECTING"
    THEN [disconnectFromRealtime(S) EXCEPT !.sessionStatus = "DISCONNECTED"]
    ELSE connectToRealtime(R, S)

ToggleConnection ==
  /\ mounted
  /\ Commit(Obs(RunEffects(Cur, onToggleConnection(Cur, Cur)),
                [op |-> "toggleConnection", known |-> FALSE,
                 detail |-> IF sessionStatus \in {"CONNECTED", "CONNECTING"}
                              THEN "disconnect" ELSE "connect"]))
  /\ UNCHANGED mounted

\* KeyResolved leaving the status alone when the response has no
\* client_secret.value.
KeyResolvedSilent(c, ok) ==
  /\ conns[c].stage = "key"
  /\ LET data == [client_secret |-> ok]
         L == logServerEvent(Cur, data, "fetch_session_token_response")
         S == IF ok
                THEN [L EXCEPT !.conns[c].stage = "media",
                               !.conns[c].pc = "open"]
                ELSE [logClientEvent(L, data, "error.no_ephemeral_key")
                        EXCEPT !.conns[c].stage = "failed"]
     IN Commit(Obs(RunEffects(Cur, S), [op |-> "key", known |-> ok, detail |-> ""]))
  /\ UNCHANGED mounted

\* fetchEphemeralKey resolves (part_000:693-705, 712-715): the response is
\* logged.  Without a client_secret.value the failure is logged, the
\* attempt ends and status is set to DISCONNECTED; otherwise
\* createRealtimeConnection starts: it creates the peer connection and
\* suspends at getUserMedia (realtimeConnection.ts:7-21).
KeyResolved(c, ok) ==
  /\ conns[c].stage = "key"
  /\ LET data == [client_secret |-> ok]
         L == logServerEvent(Cur, data, "fetch_session_token_response")
         S == IF ok
                THEN [L EXCEPT !.conns[c].stage = "media",
                               !.conns[c].pc = "open"]
                ELSE [logClientEvent(L, data, "error.no_ephemeral_key")
                        EXCEPT !.conns[c].stage = "failed",
                               !.sessionStatus = "DISCONNECTED"]
     IN Commit(Obs(RunEffects(Cur, S), [op |-> "key", known |-> ok, detail |-> ""]))
  /\ UNCHANGED mounted

\* getUserMedia resolves (realtimeConnection.ts:19-31): the track is attached
\* disabled, the data channel is created, and the setup suspends at the
\* offer/answer exchange.  A rejection is caught at part_000:756-759.
MediaResolved(c, ok) ==
  /\ conns[c].stage = "media"
  /\ LET S == IF ok
                THEN [Cur EXCEPT !.conns[c].stage = "sdp",
                                 !.conns[c].track = "live",
                                 !.conns[c].enabled = FALSE,
                                 !.conns[c].sender = c,
                                 !.conns[c].dc = "connecting"]
                ELSE [Cur EXCEPT !.conns[c].stage = "failed",
                                 !.sessionStatus = "DISCONNECTED"]
     IN Commit(Obs(RunEffects(Cur, S), [op |-> "media", known |-> ok, detail |-> ""]))
  /\ UNCHANGED mounted

\* The offer/answer exchange resolves (realtimeConnection.ts:31-64) and
\* connectToRealtime installs the handles and wires the listeners
\* (part_000:738-755).  A failure is caught at part_000:756-759.
SdpResolved(c, ok) ==
  /\ conns[c].stage = "sdp"
  /\ LET S == IF ok
                THEN [Cur EXCEPT !.conns[c].stage = "wired",
                                 !.pcRef = c, !.dcRef = c, !.audioTrackRef = c,
                                 !.dataChannel = c]
                ELSE [Cur EXCEPT !.conns[c].stage = "failed",
                                 !.sessionStatus = "DISCONNECTED"]
     IN Commit(Obs(RunEffects(Cur, S), [op |-> "sdp", known |-> ok, detail |-> ""]))
  /\ UNCHANGED mounted

\* The data channel of a wired connection opens (the "open" listener of
\* part_000:742-744 logs it).
DataChannelOpen(c) ==
  /\ conns[c].stage = "wired"
  /\ conns[c].pc = "open"
  /\ conns[c].dc = "connecting"
  /\ Commit(Obs([logClientEvent(Cur, NoFields, "data_channel.open")
                    EXCEPT !.conns[c].dc = "open"],
                [op |-> "dcOpen", known |-> FALSE, detail |-> ""]))
  /\ UNCHANGED mounted

\* SelectLanguages with a modal that saves whatever is chosen.
SelectLanguagesAny(sourceLang, targetLang) ==
  /\ mounted
  /\ Commit(Obs(RunEffects(Cur, handleLanguageSelection(Cur, Cur, sourceLang, targetLang)),
                [op |-> "selectLanguages", known |-> FALSE, detail |-> ""]))
  /\ UNCHANGED mounted

\* The user saves a pair in the language modal.
SelectLanguages(sourceLang, targetLang) ==
  /\ mounted
  /\ sourceLang # targetLang
  /\ Commit(Obs(RunEffects(Cur, handleLanguageSelection(Cur, Cur, sourceLang, targetLang)),
                [op |-> "selectLanguages", known |-> FALSE, detail |-> ""]))
  /\ UNCHANGED mounted

\* The user (or the hardware button) toggles recording.
ToggleRecording ==
  /\ mounted
  /\ Commit(Obs(RunEffects(Cur, handleToggleRecording(Cur, Cur)),
                [op |-> "toggleRecording", known |-> FALSE, detail |-> ""]))
  /\ UNCHANGED mounted

\* The user toggles recording while the screen shows it as recording:
\* handleToggleRecording takes the stop branch (part_000:1196-1197).
ToggleWhileRecording ==
  /\ isRecording
  /\ ToggleRecording

\* The user picks another agent; the auto-connect effect may start a setup.
SelectAgent(newAgentName) ==
  /\ mounted
  /\ newAgentName # selectedAgentName
  /\ Commit(Obs(RunEffects(Cur, handleSelectedAgentChange(Cur, Cur, newAgentName)),
                [op |-> "selectAgent", known |-> FALSE, detail |-> ""]))
  /\ UNCHANGED mounted

\* The user selects a capture device in the device modal (part_000:1933).
\* One device is selected in a run.
ConnectToBluetoothDevice ==
  /\ mounted
  /\ deviceTracks[SelectedTrack].state = "none"
  /\ Commit(Obs(RunEffects(Cur, connectToBluetoothDevice(Cur, Cur)),
                [op |-> "selectDevice", known |-> FALSE, detail |-> ""]))
  /\ UNCHANGED mounted

\* getUserMedia of a device request resolves.  When it is rejected
\* (part_000:1519-1524 and 1893-1895) audioTrackRef stays empty and no
\* listener is added.
DeviceAcquired(d, ok) ==
  /\ deviceTracks[d].state = "acquiring"
  /\ LET S == IF ok
                THEN deviceAcquired(Cur, d)
                ELSE [Cur EXCEPT !.deviceTracks[d].state = "none",
                                 !.buttonListener =
                                    IF d = SelectedTrack THEN NoListener ELSE @]
     IN Commit(Obs(RunEffects(Cur, S),
                   [op |-> "deviceAcquired", known |-> ok, detail |-> ""]))
  /\ UNCHANGED mounted

\* The hardware button sends a byte on its characteristic.
ButtonSignal(byte) ==
  /\ buttonListener.state = "registered"
  /\ Commit(Obs(RunEffects(Cur,
                  handleCharacteristicValueChanged(buttonListener, Cur, byte)),
                [op |-> IF byte = 1 THEN "buttonDown" ELSE "buttonUp",
                 known |-> FALSE, detail |-> ""]))
  /\ UNCHANGED mounted

\* ---- what the remote side may send
Texts == {<<>>, <<"a">>}

DeltaChars == {"a", "eacute", "ccedil", "han", "digit"}

DeltaTexts ==
  {<<>>} \cup {<<x>> : x \in DeltaChars}
         \cup {<<x, y>> : x \in DeltaChars, y \in DeltaChars}

OutputItems(k) ==
  {[type |-> "message", name |-> "", call_id |-> k, arguments |-> ""]}
  \cup
  {[type |-> "function_call", name |-> n, call_id |-> k, arguments |-> a] :
     n \in {"lookup", "transferAgents", "other"},
     a \in {"", "invalid", "null", "helper", "nobody"}}

\* The output lists of a response.done: one or two items with fresh,
\* different call ids.
Outputs ==
  LET free == {k \in CallIds : calls[k].state = "unused"}
      items == UNION {OutputItems(k) : k \in free}
  IN {<<>>} \cup {<<o>> : o \in items}
       \cup {q \in {<<o1, o2>> : o1 \in items, o2 \in items} :
               q[1].call_id < q[2].call_id}

SessionCreatedEvents ==
  {[type |-> "session.created", id |-> i] : i \in {"", "sess"}}

SessionStatusEvents ==
  {[type |-> "session.status", status |-> st] :
     st \in {"", "DISCONNECTED", "CONNECTING", "CONNECTED"}}

TranscriptionDeltaEvents ==
  {[type |-> "conversation.item.input_audio_transcription.delta", delta |-> d] :
     d \in DeltaTexts}

ItemCreatedEvents ==
  {[type |-> "conversation.item.created", itemId |-> i, role |-> r, text |-> t] :
     i \in ItemIds \cup {0}, r \in {"user", "assistant", ""}, t \in {<<>>, <<"a">>}}

TranscriptionCompletedEvents ==
  {[type |-> "conversation.item.input_audio_transcription.completed",
    itemId |-> i, transcript |-> t] :
     i \in ItemIds \cup {0}, t \in {<<>>, <<"\n">>, <<" ">>, <<"a">>}}

AudioTranscriptDeltaEvents ==
  {[type |-> "response.audio_transcript.delta", itemId |-> i, delta |-> t] :
     i \in ItemIds \cup {0}, t \in Texts}

OutputItemDoneEvents ==
  {[type |-> "response.output_item.done", itemId |-> i] : i \in ItemIds \cup {0}}

ResponseDoneEvents == {[type |-> "response.done", output |-> o] : o \in Outputs}

\* Events of types the switch has no case for; the second one carries the
\* fields the transcript cases read.
UnknownEvents ==
  {[type |-> "rate_limits.updated"],
   [type |-> "response.text.delta", itemId |-> 1, delta |-> <<"a">>]}

\* Whether the item an event names is in the transcript (FALSE for an event
\* that names none).
NamesKnownItem(ev) ==
  /\ "itemId" \in DOMAIN ev
  /\ HasItem(transcriptItems, ev.itemId)

\* What an event carries that decides its handling: the session id of a
\* session.created, the top-ranked language of a transcription delta the
\* dispatcher H processes ("" when it ignores the delta), and whether an item
\* event names an item at all.
Detail(H, ev) ==
  CASE ev.type = "session.created" -> ev.id
    [] ev.type = "conversation.item.input_audio_transcription.delta" ->
         IF H.isRecording /\ ev.delta # <<>>
           THEN LET sorted == sortedLanguages(ev.delta)
                IN IF sorted # <<>> THEN sorted[1] ELSE ""
           ELSE ""
    [] "itemId" \in DOMAIN ev -> IF ev.itemId = 0 THEN "absent" ELSE "named"
    [] OTHER -> ""

\* A message arrives on an open channel: the listener of part_000:751-753
\* calls the dispatcher of the render that set the connection up.  The remote
\* side opens every session with one session.created that carries the
\* session id and sends nothing else before it.
ServerEvent(c, ev) ==
  /\ conns[c].stage = "wired"
  /\ conns[c].dc = "open"
  /\ conns[c].created <=> ev.type # "session.created"
  /\ LET S == handleServerEvent(conns[c].hv, Cur, ev)
         S1 == IF ev.type = "session.created" /\ ev.id # ""
                 THEN [S EXCEPT !.conns[c].created = TRUE] ELSE S
     IN Commit(Obs(RunEffects(Cur, S1),
                   [op |-> ev.type, known |-> NamesKnownItem(ev),
                    detail |-> Detail(conns[c].hv, ev)]))
  /\ \A i \in 1..Len(transcriptItems') : Len(transcriptItems'[i].text) <= MaxText
  /\ UNCHANGED mounted

\* The props of a dispatcher whose render has no selected pair
\* (useHandleServerEvent.ts:38-55); only isRecording varies.
NoPairProps == {[NoView EXCEPT !.isRecording = r] : r \in BOOLEAN}

\* The handler of a dispatcher with the props H, applied on its own to a
\* transcription delta while the channel is open: what the handler sets and
\* sends (useHandleServerEvent.ts:216-339), without the effects of the
\* component that mounts the hook.
DispatchDelta(H, ev) ==
  /\ dcRef # 0
  /\ conns[dcRef].dc = "open"
  /\ conns[dcRef].created
  /\ Commit(Obs(handleServerEvent(H, Cur, ev),
                [op |-> "dispatch.delta", known |-> FALSE,
                 detail |-> Detail(H, ev)]))
  /\ UNCHANGED mounted

\* The custom tool logic of a suspended function call settles
\* (useHandleServerEvent.ts:73-87): on a result the output and a
\* response.create are sent; when it throws nothing is sent.
ToolSettled(call_id, ok) ==
  /\ calls[call_id].state = "pending"
  /\ LET S == IF ok
                THEN LET S1 == SendOutput(Cur, call_id, "custom", FALSE)
                     IN [sendClientEvent(S1, [type |-> "response.create"], "")
                           EXCEPT !.calls[call_id].state = "done"]
                ELSE [Cur EXCEPT !.calls[call_id].state = "threw"]
     IN Commit(Obs(RunEffects(Cur, S), [op |-> "toolSettled", known |-> ok, detail |-> ""]))
  /\ UNCHANGED mounted

\* ------------------------------------------------------------ specification
Init ==
  /\ mounted = FALSE
  /\ sessionStatus = "DISCONNECTED"
  /\ selectedSourceLanguage = ""
  /\ selectedTargetLanguage = ""
  /\ detectedLanguage = Null
  /\ secondLanguage = Null
  /\ isRecording = FALSE
  /\ selectedAgentName = "translator"
  /\ selectedAgentConfigSet = NoAgentSet
  /\ dataChannel = 0
  /\ pcRef = 0
  /\ dcRef = 0
  /\ audioTrackRef = 0
  /\ conns = [c \in ConnIds |-> NoConn]
  /\ nConn = 0
  /\ transcriptItems = <<>>
  /\ calls = [k \in CallIds |-> NoCall]
  /\ sent = <<>>
  /\ loggedEvents = <<>>
  /\ deviceTracks = [d \in DeviceTrackIds |-> NoTrack]
  /\ buttonStateRef = [isButtonPressed |-> FALSE, wasRecordingStarted |-> FALSE]
  /\ buttonListener = NoListener
  /\ hist = NoHist

StoredPairs ==
  {<<>>} \cup {p \in ModalLangs \X ModalLangs : p[1] # p[2]}

DoMount == \E p \in StoredPairs, ptt \in BOOLEAN : Mount(p, ptt)
DoMountPlain == Mount(<<>>, FALSE)
DoSelectLanguages == \E a \in ModalLangs, b \in ModalLangs : SelectLanguages(a, b)
DoSelectAgent == \E a \in AgentNames : SelectAgent(a)
DoKeyResolved == \E c \in ConnIds, ok \in BOOLEAN : KeyResolved(c, ok)
DoMediaResolved == \E c \in ConnIds, ok \in BOOLEAN : MediaResolved(c, ok)
DoSdpResolved == \E c \in ConnIds, ok \in BOOLEAN : SdpResolved(c, ok)
DoDataChannelOpen == \E c \in ConnIds : DataChannelOpen(c)
DoSessionCreated == \E c \in ConnIds : \E ev \in SessionCreatedEvents : ServerEvent(c, ev)
DoSessionStatus == \E c \in ConnIds : \E ev \in SessionStatusEvents : ServerEvent(c, ev)
DoTranscriptionDelta ==
  \E c \in ConnIds : \E ev \in TranscriptionDeltaEvents : ServerEvent(c, ev)
DoItemCreated == \E c \in ConnIds : \E ev \in ItemCreatedEvents : ServerEvent(c, ev)
DoTranscriptionCompleted ==
  \E c \in ConnIds : \E ev \in TranscriptionCompletedEvents : ServerEvent(c, ev)
DoAudioTranscriptDelta ==
  \E c \in ConnIds : \E ev \in AudioTranscriptDeltaEvents : ServerEvent(c, ev)
DoOutputItemDone == \E c \in ConnIds : \E ev \in OutputItemDoneEvents : ServerEvent(c, ev)
DoResponseDone == \E c \in ConnIds : \E ev \in ResponseDoneEvents : ServerEvent(c, ev)
DoUnknownEvent == \E c \in ConnIds : \E ev \in UnknownEvents : ServerEvent(c, ev)

\* A completion whose transcript is empty or plain text.
DoTranscriptionCompletedPlain ==
  \E c \in ConnIds : \E ev \in TranscriptionCompletedEvents :
    ev.transcript \in Texts /\ ServerEvent(c, ev)

\* A transcription delta of at most one character.
DoTranscriptionDeltaShort ==
  \E c \in ConnIds : \E ev \in TranscriptionDeltaEvents :
    Len(ev.delta) <= 1 /\ ServerEvent(c, ev)

\* The credential fetch of a setup fails.
DoKeyFailed == \E c \in ConnIds : KeyResolved(c, FALSE)
DoToolSettled == \E k \in CallIds, ok \in BOOLEAN : ToolSettled(k, ok)
\* The deltas are texts in Spanish, French and Chinese characters.
DoDispatchDelta ==
  \E H \in NoPairProps : \E ev \in TranscriptionDeltaEvents :
    /\ \A k \in 1..Len(ev.delta) : ev.delta[k] \in {"eacute", "ccedil", "han"}
    /\ DispatchDelta(H, ev)
\* The classifier on every text of up to MaxRank characters, each as the
\* first speech a recording dispatcher hears in the session.
RankChars ==
  {"a", "han", "kana", "hangul", "cyrillic", "arabic", "devanagari", "ntilde",
   "eacute", "ccedil", "uuml", "digit"}
RankTexts == UNION {[1..n -> RankChars] : n \in 0..MaxRank}
RecordingProps ==
  {[NoView EXCEPT !.isRecording = TRUE, !.selectedSourceLanguage = p[1],
                  !.selectedTargetLanguage = p[2]] :
     p \in {<<"", "">>, <<"en", "es">>}}
DoClassifyDelta ==
  \E H \in RecordingProps : \E d \in RankTexts :
    /\ detectedLanguage = Null
    /\ DispatchDelta(H, [type |-> "conversation.item.input_audio_transcription.delta",
                         delta |-> d])
\* The Event Log provider on its own: loggedEvents is the whole log
\* (EventContext.tsx:17), of at most MaxLog entries, and App state is left
\* alone.
AppState ==
  <<mounted, sessionStatus, selectedSourceLanguage, selectedTargetLanguage,
    detectedLanguage, secondLanguage, isRecording, selectedAgentName,
    selectedAgentConfigSet, dataChannel, pcRef, dcRef, audioTrackRef, conns,
    nConn, transcriptItems, calls, sent, deviceTracks, buttonStateRef,
    buttonListener>>

\* What is logged: an event without fields under a suffix, a client event
\* without an id, and events with the ids the remote side gives them (0 for
\* an empty id).
LoggedObjects ==
  {<<NoFields, "data_channel.open">>, <<[type |-> "session.update"], "">>}
  \cup {<<[type |-> "response.done", event_id |-> e], "">> : e \in 0..2}

LogClientEvent(eventObj, eventNameSuffix) ==
  /\ Len(loggedEvents) < MaxLog
  /\ loggedEvents' =
       logClientEvent([loggedEvents |-> loggedEvents], eventObj,
                      eventNameSuffix).loggedEvents
  /\ hist' = [op |-> "logClientEvent", known |-> FALSE, detail |-> 0]
  /\ UNCHANGED AppState

LogServerEvent(eventObj, eventNameSuffix) ==
  /\ Len(loggedEvents) < MaxLog
  /\ loggedEvents' =
       logServerEvent([loggedEvents |-> loggedEvents], eventObj,
                      eventNameSuffix).loggedEvents
  /\ hist' = [op |-> "logServerEvent", known |-> FALSE, detail |-> 0]
  /\ UNCHANGED AppState

\* known: some entry has the id.
ToggleExpand(id) ==
  /\ loggedEvents' = toggleExpand([loggedEvents |-> loggedEvents], id).loggedEvents
  /\ hist' = [op |-> "toggleExpand",
              known |-> \E i \in 1..Len(loggedEvents) : loggedEvents[i].id = id,
              detail |-> id]
  /\ UNCHANGED AppState

DoLogClientEvent == \E o \in LoggedObjects : LogClientEvent(o[1], o[2])
DoLogServerEvent == \E o \in LoggedObjects : LogServerEvent(o[1], o[2])
DoToggleExpand == \E id \in (0 - MaxLog)..2 : ToggleExpand(id)
DoDeviceAcquired == \E d \in DeviceTrackIds, ok \in BOOLEAN : DeviceAcquired(d, ok)
DoButtonSignal == \E byte \in {0, 1} : ButtonSignal(byte)

\* A setup step succeeds.
DoSetupStep ==
  \E c \in ConnIds :
    KeyResolved(c, TRUE) \/ MediaResolved(c, TRUE) \/ SdpResolved(c, TRUE)

\* The user toggles the connection while no setup is suspended.
ToggleSettled ==
  /\ \A c \in ConnIds : ~InFlight(c)
  /\ ToggleConnection

\* Sessions that are set up without failure, one after the other.
Sessions ==
  \/ ToggleSettled
  \/ DoSetupStep
  \/ DoDataChannelOpen
  \/ DoSessionCreated

\* The connection lifecycle with its failures.
Lifecycle ==
  \/ ToggleConnection
  \/ DoKeyResolved
  \/ DoMediaResolved
  \/ DoSdpResolved
  \/ DoDataChannelOpen
  \/ DoSessionCreated

\* The whole program.
Next ==
  \/ DoMount
  \/ Lifecycle
  \/ DoSelectLanguages
  \/ ToggleRecording
  \/ DoSelectAgent
  \/ DoSessionStatus
  \/ DoTranscriptionDelta
  \/ DoItemCreated
  \/ DoTranscriptionCompleted
  \/ DoAudioTranscriptDelta
  \/ DoOutputItemDone
  \/ DoResponseDone
  \/ DoUnknownEvent
  \/ DoToolSettled
  \/ ConnectToBluetoothDevice
  \/ DoDeviceAcquired
  \/ DoButtonSignal

Spec == Init /\ [][Next]_vars

\* The session negotiator: connect requests, disconnects and late setups.
NextConn ==
  \/ DoMountPlain
  \/ Lifecycle
  \/ DoSelectAgent
  \/ DoSessionStatus

SpecConn == Init /\ [][NextConn]_vars

\* Language selection, detection and the configuration pushes.
NextLang ==
  \/ DoMount
  \/ Sessions
  \/ DoKeyFailed
  \/ DoSelectLanguages
  \/ ToggleRecording
  \/ DoTranscriptionDeltaShort

SpecLang == Init /\ [][NextLang]_vars

\* The transcript under the item events.
NextTranscript ==
  \/ DoMountPlain
  \/ Sessions
  \/ DoItemCreated
  \/ DoTranscriptionCompletedPlain
  \/ DoAudioTranscriptDelta
  \/ DoOutputItemDone
  \/ DoUnknownEvent

SpecTranscript == Init /\ [][NextTranscript]_vars

\* The function-call protocol.
NextCalls ==
  \/ DoMountPlain
  \/ Lifecycle
  \/ DoResponseDone
  \/ DoToolSettled

SpecCalls == Init /\ [][NextCalls]_vars

\* Recording through the screen and through the hardware button, with the
\* capture devices.
NextAudio ==
  \/ DoMountPlain
  \/ Sessions
  \/ ToggleRecording
  \/ ConnectToBluetoothDevice
  \/ DoDeviceAcquired
  \/ DoButtonSignal

SpecAudio == Init /\ [][NextAudio]_vars

\* The user messages under their final transcripts, whitespace included.
NextCompleted ==
  \/ DoMountPlain
  \/ Sessions
  \/ DoItemCreated
  \/ DoTranscriptionCompleted
  \/ DoUnknownEvent

SpecCompleted == Init /\ [][NextCompleted]_vars

\* The delta handler of a dispatcher without a selected pair, on a live
\* session.
NextDispatch ==
  \/ DoMountPlain
  \/ Sessions
  \/ DoDispatchDelta

SpecDispatch == Init /\ [][NextDispatch]_vars

\* The language classifier alone, on the session the first render sets up.
NextClassifier ==
  \/ DoMountPlain
  \/ DoSetupStep
  \/ DoDataChannelOpen
  \/ DoSessionCreated
  \/ DoClassifyDelta

SpecClassifier == Init /\ [][NextClassifier]_vars

\* The Event Log provider.
NextEventLog ==
  \/ DoLogClientEvent
  \/ DoLogServerEvent
  \/ DoToggleExpand

SpecEventLog == Init /\ [][NextEventLog]_vars

\* Sessions in which the user never starts recording and only stops it.
NextStopOnly ==
  \/ DoMount
  \/ Sessions
  \/ ToggleWhileRecording

SpecStopOnly == Init /\ [][NextStopOnly]_vars

\* ------------------------------------------------------------------- claims

TranscriptionDelta == "conversation.item.input_audio_transcription.delta"

\* The members of a pair of a session.update, as a set.
Members(pair) == {pair[i] : i \in 1..Len(pair)}

SessionUpdates == {i \in 1..Len(sent) : sent[i].type = "session.update"}

\* ---- C1
\* C1: every function call dispatched from a response.done whose handling
\* has ended, in whichever branch, has had exactly one function_call_output
\* with its call id transmitted.  (A call whose handling ended without the
\* output never gets one: nothing is left that would send it.)
C1_ExactlyOneOutput ==
  \A k \in CallIds :
    calls[k].state \in {"done", "threw"} => calls[k].outputs = 1

\* ---- C2
\* C2: the transcript holds at most one item per item id, and a
\* conversation.item.created whose id is already in the transcript leaves the
\* transcript (texts and positions) as it was.
C2_OneItemPerId ==
  /\ [](\A i, j \in 1..Len(transcriptItems) :
          transcriptItems[i].itemId = transcriptItems[j].itemId => i = j)
  /\ [][(hist'.op = "conversation.item.created" /\ hist'.known)
          => transcriptItems' = transcriptItems]_vars

\* A conversation.item.created was delivered for an id the transcript held.
C2_Redelivered ==
  /\ hist.op = "conversation.item.created"
  /\ hist.known
  /\ transcriptItems # <<>>

\* ---- C3
\* C3: a connect request made while status is CONNECTING or CONNECTED changes
\* nothing, and at most one connection setup is in flight at any time.
C3_OneSetupInFlight ==
  /\ \A st \in {"CONNECTING", "CONNECTED"} :
       connectToRealtime([Cur EXCEPT !.sessionStatus = st], Cur) = Cur
  /\ Cardinality({c \in ConnIds : InFlight(c)}) <= 1

\* ---- C4
\* C4: a setup that was suspended when the user disconnected is discarded
\* when it resolves: its handles are not installed and no listener is wired.
C4_StaleSetupDiscarded ==
  \A c \in ConnIds :
    conns[c].cancelled =>
      /\ conns[c].stage # "wired"
      /\ pcRef # c /\ dcRef # c /\ dataChannel # c

\* ---- C5
\* C5: every session.update sent while isRecording is true carries
\* turn_detection null, and every one sent while it is false carries the
\* fixed server-VAD policy, whichever path sent it.
C5_TurnDetectionFollowsRecording ==
  \A i \in SessionUpdates :
    sent[i].turn_detection = IF isRecording THEN NoTurnDetection ELSE ServerVad

\* ---- C6
\* C6: in the stream of transmitted client events every session.update is
\* immediately preceded by the input_audio_buffer.clear of the same push.
C6_ClearBeforeEveryUpdate ==
  \A i \in SessionUpdates :
    i > 1 /\ sent[i - 1].type = "input_audio_buffer.clear"

\* ---- C7
\* C7: with a pair (A,B) selected, a transcription delta processed while
\* recording whose top language is a member of the pair makes the other
\* member the target, pushes the configuration for (top, other), and no
\* pushed configuration names a language outside the pair.
C7_DetectionDecidesDirection ==
  LET A == selectedSourceLanguage
      B == selectedTargetLanguage
      top == hist.detail
      other == IF top = A THEN B ELSE A
  IN (/\ hist.op = TranscriptionDelta
      /\ isRecording
      /\ Truthy(A) /\ Truthy(B) /\ A # B
      /\ top \in {A, B})
     => /\ detectedLanguage = top
        /\ secondLanguage = other
        /\ \E i \in SessionUpdates : sent[i].pair = <<top, other>>
        /\ \A i \in SessionUpdates : Members(sent[i].pair) = {A, B}

\* ---- C8
\* C8: with a pair (A,B) selected (and read as such by the dispatcher), a
\* processed transcription delta whose top language is outside the pair
\* leaves (A,B) authoritative: every configuration pushed names exactly A and
\* B, the next configuration updateSession builds does too, and the notice is
\* sent.
C8_PairKeptOutsideDetection ==
  LET A == selectedSourceLanguage
      B == selectedTargetLanguage
      top == hist.detail
  IN (/\ hist.op = TranscriptionDelta
      /\ Truthy(A) /\ Truthy(B)
      /\ top # "" /\ top \notin {A, B}
      /\ \A c \in ConnIds :
           conns[c].dc = "open" =>
             /\ conns[c].hv.selectedSourceLanguage = A
             /\ conns[c].hv.selectedTargetLanguage = B)
     => /\ \A i \in SessionUpdates : Members(sent[i].pair) = {A, B}
        /\ Members(SessionPair(Cur)) = {A, B}
        /\ \E i \in 1..Len(sent) : sent[i] = Notice("not in pair", top, <<A, B>>)

\* ---- C9
\* C9: a session.created that carries a session id and arrives while a pair
\* (A,B) is selected makes status CONNECTED and is answered by a
\* session.update that names exactly A and B.
C9_CreatedPushesSelectedPair ==
  LET A == selectedSourceLanguage
      B == selectedTargetLanguage
  IN (/\ hist.op = "session.created"
      /\ hist.detail # ""
      /\ Truthy(A) /\ Truthy(B))
     => /\ sessionStatus = "CONNECTED"
        /\ \E i \in SessionUpdates : Members(sent[i].pair) = {A, B}

\* ---- C10
\* C10: a transcription-completed, audio-transcript-delta or output-item-done
\* event whose item id is not in the transcript changes nothing: no item is
\* created or modified, nothing is sent, and the state the later events are
\* handled in is the state before the event.
C10_UnknownIdAbsorbed ==
  [][(/\ hist'.op \in {"conversation.item.input_audio_transcription.completed",
                       "response.audio_transcript.delta",
                       "response.output_item.done"}
      /\ ~hist'.known)
       => /\ sent' = <<>>
          /\ UNCHANGED <<mounted, sessionStatus, selectedSourceLanguage,
                         selectedTargetLanguage, detectedLanguage,
                         secondLanguage, isRecording, selectedAgentName,
                         selectedAgentConfigSet, dataChannel, pcRef, dcRef,
                         audioTrackRef, conns, nConn, transcriptItems,
                         calls>>]_vars

\* Such an event named an id the (non-empty) transcript does not hold.
C10_UnknownIdSeen ==
  /\ hist.op \in {"conversation.item.input_audio_transcription.completed",
                  "response.audio_transcript.delta",
                  "response.output_item.done"}
  /\ hist.detail = "named"
  /\ ~hist.known
  /\ transcriptItems # <<>>

\* The inbound event of the last action, as the dispatcher logged it.
Inbound == loggedEvents[1].eventData

\* C11: every response.audio_transcript.delta appends its text to the message
\* with its item id and leaves every other item as it was, and an event that
\* names another item id leaves the text of this message alone; so the text of
\* a message created empty is the concatenation, in arrival order, of the
\* deltas received for its id.
C11_DeltasConcatenate ==
  [][/\ hist'.op = "response.audio_transcript.delta"
        => /\ Len(transcriptItems') = Len(transcriptItems)
           /\ \A k \in 1..Len(transcriptItems) :
                transcriptItems'[k] =
                  IF transcriptItems[k].itemId = Inbound'.itemId
                    THEN [transcriptItems[k] EXCEPT !.text = @ \o Inbound'.delta]
                    ELSE transcriptItems[k]
     /\ hist'.op \in {"conversation.item.created",
                      "conversation.item.input_audio_transcription.completed",
                      "response.output_item.done"}
        => \A k \in 1..Len(transcriptItems) :
             transcriptItems[k].itemId # Inbound'.itemId
               => /\ k <= Len(transcriptItems')
                  /\ transcriptItems'[k].text = transcriptItems[k].text]_vars

\* C11 witness: a second delta has just been appended to an assistant message
\* while another item is in the transcript.
C11_TwoDeltasAppended ==
  /\ hist.op = "response.audio_transcript.delta"
  /\ hist.known
  /\ Len(transcriptItems) = 2
  /\ \E k \in 1..Len(transcriptItems) :
       /\ transcriptItems[k].role = "assistant"
       /\ transcriptItems[k].status = "IN_PROGRESS"
       /\ transcriptItems[k].text = <<"a", "a">>

\* C12: an item that response.output_item.done has marked DONE is terminal:
\* its status stays DONE, and a later response.audio_transcript.delta or
\* transcription-completed event leaves its text as it was.
C12_DoneIsTerminal ==
  [][\A k \in 1..Len(transcriptItems) :
       transcriptItems[k].status = "DONE"
         => /\ k <= Len(transcriptItems')
            /\ transcriptItems'[k].itemId = transcriptItems[k].itemId
            /\ transcriptItems'[k].status = "DONE"
            /\ hist'.op \in {"response.audio_transcript.delta",
                             "conversation.item.input_audio_transcription.completed"}
                 => transcriptItems'[k].text = transcriptItems[k].text]_vars

\* The channel sendClientEvent would transmit on is open.
SendChannelOpen == dcRef # 0 /\ conns[dcRef].dc = "open"

\* The diagnostic sendClientEvent logs for an event it drops.
NotOpenDiagnostic(type, position) ==
  [id |-> 0 - position, direction |-> "client",
   eventName |-> <<"error.data_channel_not_open">>,
   eventData |-> [attemptedEvent |-> type], expanded |-> FALSE]

\* C13: sendClientEvent called while the channel is absent or not open
\* transmits nothing, logs exactly one client-direction diagnostic per call,
\* changes no session state and returns, so the caller goes on: when the tool
\* logic of a function call settles on a channel that is not open, nothing is
\* transmitted, the log gains one diagnostic for the function_call_output and
\* one for the response.create, the session state is as it was and the call
\* is completed.  No action transmits while the channel is not open, and the
\* opening of a channel transmits nothing (nothing was queued).
C13_ClosedChannelDrops ==
  /\ [](~SendChannelOpen => sent = <<>>)
  /\ [][/\ hist'.op = "dcOpen" => sent' = <<>>
        /\ (hist'.op = "toolSettled" /\ hist'.known /\ ~SendChannelOpen)
             => /\ sent' = <<>>
                /\ loggedEvents' = <<NotOpenDiagnostic("conversation.item.create", 1),
                                     NotOpenDiagnostic("response.create", 2)>>
                /\ UNCHANGED <<sessionStatus, selectedSourceLanguage,
                               selectedTargetLanguage, detectedLanguage,
                               secondLanguage, isRecording, selectedAgentName,
                               selectedAgentConfigSet, dataChannel, pcRef, dcRef,
                               audioTrackRef, conns, nConn, transcriptItems>>
                /\ \E k \in CallIds :
                     /\ calls[k].state = "pending"
                     /\ calls' = [calls EXCEPT ![k].state = "done"]]_vars

\* C13 witness: the tool logic of a call has settled after the channel was
\* closed, and both of its events were dropped.
C13_DroppedAfterClose ==
  /\ hist.op = "toolSettled"
  /\ hist.known
  /\ dcRef # 0
  /\ conns[dcRef].dc = "closed"
  /\ sent = <<>>
  /\ Len(loggedEvents) = 2
  /\ \E k \in CallIds : calls[k].state = "done" /\ calls[k].outputs = 0

\* The types of the inbound events the remote side sends.
InboundTypes ==
  {"session.status", "session.created", "conversation.item.created",
   "conversation.item.input_audio_transcription.delta",
   "conversation.item.input_audio_transcription.completed",
   "response.audio_transcript.delta", "response.done",
   "response.output_item.done", "rate_limits.updated", "response.text.delta"}

\* The protocol events the client entries of the last action's log mirror,
\* in log order.
MirroredEvents ==
  LET entries == SelectSeq(loggedEvents,
                   LAMBDA e : e.direction = "client" /\ "type" \in DOMAIN e.eventData)
  IN [i \in 1..Len(entries) |-> entries[i].eventData]

\* C14: the events an action transmits are, in order, the events its
\* client-direction log entries mirror, and an inbound server event of any
\* type is logged with a server-direction entry before anything it causes;
\* on every send path, the hardware button included.
C14_EveryEventLogged ==
  /\ MirroredEvents = sent
  /\ hist.op \in InboundTypes
       => /\ loggedEvents # <<>>
          /\ loggedEvents[1].direction = "server"
          /\ loggedEvents[1].eventName = <<hist.op>>

\* The connection ids the session handles name.
Installed == {pcRef, dcRef, dataChannel, audioTrackRef} \ {0}

C16_DisconnectReleasesEverything ==
  (hist.op = "toggleConnection" /\ hist.detail = "disconnect")
    => /\ sessionStatus = "DISCONNECTED"
       /\ \A c \in ConnIds : /\ conns[c].track # "live"
                             /\ conns[c].pc # "open"
                             /\ ~InFlight(c)
       /\ \A d \in DeviceTrackIds : deviceTracks[d].state # "live"
       /\ dataChannel = 0
       /\ ~SendChannelOpen
       /\ sent = <<>>

\* C17: after the user has disconnected, the session state is back at its
\* defaults: status DISCONNECTED, not recording, and no detected or second
\* language.
C17_DisconnectResetsState ==
  (hist.op = "toggleConnection" /\ hist.detail = "disconnect")
    => /\ sessionStatus = "DISCONNECTED"
       /\ ~isRecording
       /\ ~Truthy(detectedLanguage)
       /\ ~Truthy(secondLanguage)

Capturing ==
  {c \in ConnIds : conns[c].track = "live" /\ conns[c].enabled}
    \cup {d \in DeviceTrackIds : deviceTracks[d].state = "live" /\ deviceTracks[d].enabled}

\* C19: a local track captures only while isRecording is true, and a track
\* that has just been acquired, by a setup or for another device, is
\* disabled.
C19_CapturesOnlyWhileRecording ==
  /\ Capturing # {} => isRecording
  /\ (hist.op = "media" /\ hist.known)
       => \A c \in ConnIds : conns[c].stage = "sdp" => ~conns[c].enabled
  /\ (hist.op = "deviceAcquired" /\ hist.known)
       => /\ audioTrackRef \in DeviceTrackIds
          /\ ~deviceTracks[audioTrackRef].enabled

\* C20: a transcription delta that arrives while isRecording is false, or
\* whose text is empty, is only logged: the detected and the second language,
\* the status and the transcript stay as they were and nothing is sent.
C20_IdleDeltaIgnored ==
  [][(/\ hist'.op = TranscriptionDelta
      /\ (~isRecording \/ Inbound'.delta = <<>>))
       => /\ sent' = <<>>
          /\ Len(loggedEvents') = 1
          /\ UNCHANGED <<detectedLanguage, secondLanguage, sessionStatus,
                         transcriptItems>>]_vars

\* C21: a non-empty transcription delta in which at least one language
\* scores, arriving while isRecording is true in the session state, is
\* classified: detectedLanguage becomes its top-ranked language.
C21_RecordingDeltaClassified ==
  [][(/\ hist'.op = TranscriptionDelta
      /\ isRecording
      /\ Inbound'.delta # <<>>
      /\ sortedLanguages(Inbound'.delta) # <<>>)
       => detectedLanguage' = sortedLanguages(Inbound'.delta)[1]]_vars

\* The pair the next configuration built by updateSession names.
AuthoritativePair == SessionPair(Cur)

\* C22: while recording, a transcription delta that leaves the authoritative
\* pair as it was sends no session.update and no notice.
C22_PushOnlyOnPairChange ==
  [][(/\ hist'.op = TranscriptionDelta
      /\ isRecording
      /\ AuthoritativePair' = AuthoritativePair)
       => \A i \in 1..Len(sent') :
            sent'[i].type \notin {"session.update", "conversation.item.create"}]_vars

\* A text without a visible character (String.prototype.trim leaves "").
Blank(text) == \A k \in 1..Len(text) : text[k] \in {" ", "\n", "\t"}

\* C23: after a transcription-completed event for an item of the transcript,
\* the text of that item is the final transcript, or the marker "[inaudible]"
\* when the transcript is empty or only whitespace; it is never blank.
C23_BlankBecomesInaudible ==
  (/\ hist.op = "conversation.item.input_audio_transcription.completed"
   /\ hist.known)
    => \A k \in 1..Len(transcriptItems) :
         transcriptItems[k].itemId = Inbound.itemId
           => /\ transcriptItems[k].text =
                   IF Blank(Inbound.transcript) THEN Inaudible ELSE Inbound.transcript
              /\ ~Blank(transcriptItems[k].text)

\* The types of the events the switch has no case for.
UnknownTypes == {ev.type : ev \in UnknownEvents}

\* C24: an inbound event of a type the dispatcher does not handle is only
\* logged: status, detected and second language, the active agent, the
\* transcript, the connections and the function calls stay as they were and
\* no client event is sent.
C24_UnknownTypeIgnored ==
  [][hist'.op \in UnknownTypes
       => /\ sent' = <<>>
          /\ Len(loggedEvents') = 1
          /\ loggedEvents'[1].direction = "server"
          /\ UNCHANGED <<sessionStatus, detectedLanguage, secondLanguage,
                         selectedAgentName, selectedAgentConfigSet,
                         transcriptItems, isRecording, dataChannel, pcRef,
                         dcRef, conns, nConn, calls>>]_vars

\* C24 witness: on a connected session whose transcript holds the item the
\* event names, a response.text.delta has just been dispatched.
C24_UnknownTypeSeen ==
  /\ hist.op = "response.text.delta"
  /\ sessionStatus = "CONNECTED"
  /\ HasItem(transcriptItems, Inbound.itemId)

\* The positions of the function_call_output events with call id k among
\* the client events q.
OutputsFor(q, k) ==
  {i \in 1..Len(q) :
     /\ q[i].type = "conversation.item.create"
     /\ q[i].item = "function_call_output"
     /\ q[i].call_id = k}

\* The active agent has custom tool logic under the name.
HasToolLogic(name) ==
  /\ selectedAgentConfigSet.loaded
  /\ selectedAgentName \in DOMAIN selectedAgentConfigSet.agents
  /\ name \in selectedAgentConfigSet.agents[selectedAgentName].toolLogic

\* C25: for a transferAgents call for which the active agent has no custom
\* tool logic, exactly one function_call_output with its call id is sent and
\* its did_transfer flag says whether the destination is an agent of the
\* configured set; when the call is the only one of its response, the active
\* agent becomes the destination if it is such an agent and stays as it was
\* otherwise, and no response.create is sent.
C25_TransferReportsOutcome ==
  [][hist'.op = "response.done"
       => \A j \in 1..Len(Inbound'.output) :
            LET o == Inbound'.output[j]
                found == /\ selectedAgentConfigSet.loaded
                         /\ o.arguments \in DOMAIN selectedAgentConfigSet.agents
            IN (/\ o.type = "function_call"
                /\ o.name = "transferAgents"
                /\ o.arguments # ""
                /\ ~HasToolLogic(o.name))
                 => /\ Cardinality(OutputsFor(sent', o.call_id)) = 1
                    /\ \A i \in OutputsFor(sent', o.call_id) :
                         sent'[i] = FunctionCallOutput(o.call_id, "transfer", found)
                    /\ Len(Inbound'.output) = 1
                         => /\ selectedAgentName' =
                                 IF found THEN o.arguments ELSE selectedAgentName
                            /\ \A i \in 1..Len(sent') :
                                 sent'[i].type # "response.create"]_vars

\* C26: a dispatched function call whose name has custom tool logic in the
\* active agent invokes that logic (and sends nothing until it settles),
\* even when the name is transferAgents; otherwise transferAgents takes the
\* transfer branch and any other name the fallback branch.  In the fallback
\* branch, and when custom logic settles, the function_call_output is
\* immediately followed by one response.create.
C26_ResolutionOrder ==
  [][/\ hist'.op = "response.done"
          => \A j \in 1..Len(Inbound'.output) :
               LET o == Inbound'.output[j]
                   out == OutputsFor(sent', o.call_id)
               IN (o.type = "function_call" /\ o.name # "" /\ o.arguments # "")
                    => IF HasToolLogic(o.name)
                         THEN calls'[o.call_id].state = "pending" /\ out = {}
                         ELSE /\ calls'[o.call_id].state # "pending"
                              /\ \A i \in out :
                                   IF o.name = "transferAgents"
                                     THEN sent'[i].branch = "transfer"
                                     ELSE /\ sent'[i].branch = "fallback"
                                          /\ i < Len(sent')
                                          /\ sent'[i + 1].type = "response.create"
     /\ (hist'.op = "toolSettled" /\ hist'.known /\ sent' # <<>>)
          => /\ Len(sent') = 2
             /\ sent'[1].type = "conversation.item.create"
             /\ sent'[1].item = "function_call_output"
             /\ sent'[1].branch = "custom"
             /\ sent'[2].type = "response.create"]_vars

\* C27: when the custom tool logic of a function call throws or rejects while
\* the channel is open, one function_call_output with the call id of that call
\* is transmitted; the status, the handles and the connections stay as they
\* were, so later server events are dispatched as before.
C27_FailedToolStillAnswers ==
  [][(hist'.op = "toolSettled" /\ ~hist'.known)
       => /\ \E k \in CallIds :
               /\ calls[k].state = "pending"
               /\ calls'[k].state # "pending"
               /\ SendChannelOpen => Cardinality(OutputsFor(sent', k)) = 1
          /\ UNCHANGED <<sessionStatus, dataChannel, pcRef, dcRef, conns, nConn,
                         transcriptItems>>]_vars

\* C28: the pair updateSession names is the detected pair when a detected and
\* a second language are both set, and the selected pair otherwise (empty
\* when no pair is selected either); it never joins a detected language with
\* a selected one.
C28_PairNeverMixed ==
  AuthoritativePair =
    IF Truthy(detectedLanguage) /\ Truthy(secondLanguage)
      THEN <<detectedLanguage, secondLanguage>>
      ELSE IF Truthy(selectedSourceLanguage) /\ Truthy(selectedTargetLanguage)
             THEN <<selectedSourceLanguage, selectedTargetLanguage>>
             ELSE <<>>

\* The dispatcher of every open channel was set up while recording and with
\* the pair that is selected now.
DispatchersCurrent ==
  \A c \in ConnIds :
    conns[c].dc = "open" =>
      /\ conns[c].hv.isRecording
      /\ conns[c].hv.selectedSourceLanguage = selectedSourceLanguage
      /\ conns[c].hv.selectedTargetLanguage = selectedTargetLanguage

\* C29: a non-empty transcription delta processed while recording in which no
\* language scores, or whose top language is outside the selected pair (A,B),
\* leaves (A,B) the pair of the next configuration, sends an informational
\* message, and changes neither the status nor the connections.
C29_AmbiguityFallsBack ==
  [][(/\ hist'.op = TranscriptionDelta
      /\ isRecording
      /\ DispatchersCurrent
      /\ Truthy(selectedSourceLanguage) /\ Truthy(selectedTargetLanguage)
      /\ Inbound'.delta # <<>>
      /\ LET sorted == sortedLanguages(Inbound'.delta)
         IN \/ sorted = <<>>
            \/ sorted[1] \notin {selectedSourceLanguage, selectedTargetLanguage})
       => /\ Members(AuthoritativePair') =
               {selectedSourceLanguage, selectedTargetLanguage}
          /\ \E i \in 1..Len(sent') :
               /\ sent'[i].type = "conversation.item.create"
               /\ sent'[i].item = "message"
          /\ UNCHANGED <<sessionStatus, selectedSourceLanguage,
                         selectedTargetLanguage, isRecording, dataChannel,
                         pcRef, dcRef, conns>>]_vars

Priority == <<"en", "zh", "ja", "ko", "ru", "ar", "hi", "es", "fr", "de">>

PriorityOf(lang) == CHOOSE i \in 1..Len(Priority) : Priority[i] = lang

CountOf(text, lang) ==
  Cardinality({k \in 1..Len(text) : lang \in Matches(text[k])})

C31_RankingByCountThenPriority ==
  hist.op = "dispatch.delta"
    => LET text == Inbound.delta
           ranking == sortedLanguages(text)
       IN /\ {ranking[k] : k \in 1..Len(ranking)}
               = {Priority[i] : i \in {j \in 1..Len(Priority) :
                                        CountOf(text, Priority[j]) > 0}}
          /\ \A k \in 1..Len(ranking) : \A l \in 1..Len(ranking) :
               k < l =>
                 \/ CountOf(text, ranking[k]) > CountOf(text, ranking[l])
                 \/ /\ CountOf(text, ranking[k]) = CountOf(text, ranking[l])
                    /\ PriorityOf(ranking[k]) < PriorityOf(ranking[l])
          /\ ranking # <<>> => detectedLanguage = ranking[1]
          /\ ranking = <<>> => detectedLanguage = Null

\* Chinese scores two, Spanish and French one each: Chinese is detected and
\* Spanish is ranked before French.
C31_TieRankedByPriority ==
  /\ hist.op = "dispatch.delta"
  /\ Inbound.delta = <<"eacute", "han", "han">>
  /\ sortedLanguages(Inbound.delta) = <<"zh", "es", "fr">>
  /\ detectedLanguage = "zh"

\* C32: the Event Log is append-only.  logClientEvent and logServerEvent add
\* exactly one entry at the end, collapsed and with their direction, and leave
\* the earlier entries as they are; toggleExpand(id) changes nothing but the
\* expanded flag of an entry with that id, changes nothing at all when no
\* entry has the id, and applied once more gives the log back.
Toggled(log, id) == toggleExpand([loggedEvents |-> log], id).loggedEvents

C32_LogAppendOnly ==
  [][/\ hist'.op \in {"logClientEvent", "logServerEvent"}
        => /\ Len(loggedEvents') = Len(loggedEvents) + 1
           /\ SubSeq(loggedEvents', 1, Len(loggedEvents)) = loggedEvents
           /\ ~loggedEvents'[Len(loggedEvents')].expanded
           /\ loggedEvents'[Len(loggedEvents')].direction
                = IF hist'.op = "logClientEvent" THEN "client" ELSE "server"
     /\ hist'.op = "toggleExpand"
        => /\ Len(loggedEvents') = Len(loggedEvents)
           /\ \A i \in 1..Len(loggedEvents) :
                IF loggedEvents[i].id = hist'.detail
                  THEN loggedEvents'[i]
                         = [loggedEvents[i] EXCEPT !.expanded = ~@]
                  ELSE loggedEvents'[i] = loggedEvents[i]
           /\ ~hist'.known => loggedEvents' = loggedEvents
           /\ Toggled(loggedEvents', hist'.detail) = loggedEvents]_vars

\* Three entries with different ids, the first of them just expanded.
C32_OneEntryExpanded ==
  /\ hist.op = "toggleExpand"
  /\ hist.known
  /\ Len(loggedEvents) = 3
  /\ loggedEvents[1].id = hist.detail
  /\ loggedEvents[1].expanded
  /\ ~loggedEvents[2].expanded
  /\ ~loggedEvents[3].expanded
  /\ loggedEvents[2].id = 2

\* C33: replacing the capture device does not renegotiate the session.  The
\* two steps of a replacement (the old track is stopped and the device is
\* requested; the new track arrives and replaces the sender's track) leave
\* status, isRecording and the language state as they are, transmit no client
\* event, and start no connection: the references to the peer connection and
\* the data channel stay, and every connection keeps all but its track.
SameButTrack(c) ==
  [conns'[c] EXCEPT !.track = conns[c].track, !.enabled = conns[c].enabled,
                    !.sender = conns[c].sender] = conns[c]

C33_DeviceSwapKeepsSession ==
  [][hist'.op \in {"selectDevice", "deviceAcquired"}
       => /\ UNCHANGED <<sessionStatus, isRecording, selectedSourceLanguage,
                         selectedTargetLanguage, detectedLanguage,
                         secondLanguage, pcRef, dcRef, dataChannel, nConn>>
          /\ sent' = <<>>
          /\ \A c \in ConnIds : SameButTrack(c)]_vars

\* The track of the selected device has just replaced the sender's track on
\* an established, connected session.
C33_TrackReplacedWhileConnected ==
  /\ hist.op = "deviceAcquired"
  /\ hist.known
  /\ sessionStatus = "CONNECTED"
  /\ pcRef # 0
  /\ conns[pcRef].dc = "open"
  /\ conns[pcRef].sender = SelectedTrack
  /\ audioTrackRef = SelectedTrack

\* C34: recording drives the buffer lifecycle in step: every
\* input_audio_buffer.commit is preceded by the input_audio_buffer.clear of a
\* start-recording.  In a run in which recording is never started, no
\* input_audio_buffer.commit is transmitted.
C34_CommitOnlyAfterStart ==
  \A i \in 1..Len(sent) : sent[i].type # "input_audio_buffer.commit"

\* C35: at most one unclosed peer connection exists at any time, and every
\* peer connection a setup has created is the one the session references,
\* belongs to the setup that is under way, or is closed with its local track
\* stopped.
C35_OneLivePeerConnection ==
  /\ Cardinality({c \in ConnIds : conns[c].pc = "open"}) <= 1
  /\ \A c \in ConnIds :
       conns[c].pc # "none"
         => \/ c = pcRef
            \/ InFlight(c) /\ ~conns[c].cancelled
            \/ conns[c].pc = "closed" /\ conns[c].track # "live"

\* C36: no session.update is transmitted whose instructions name one
\* language as both members of the translation pair, whether updateSession or
\* the dispatcher sent it.
C36_PairNeverDegenerate ==
  \A i \in SessionUpdates :
    Len(sent[i].pair) = 2 => sent[i].pair[1] # sent[i].pair[2]

\* C37: whenever status is CONNECTED and isRecording is true, the audio
\* sender of the session's peer connection holds a track that is live and
\* enabled.
C37_RecordingHasLiveMicrophone ==
  (sessionStatus = "CONNECTED" /\ isRecording)
    => /\ pcRef # 0
       /\ conns[pcRef].sender \in Capturing

\* C38: when the user saves a pair while status is CONNECTED and the channel
\* is open, then after the handler and the effects it triggers have run the
\* last session.update transmitted names exactly the saved pair, and neither
\* detectedLanguage nor secondLanguage holds a language any more.
LastSessionUpdate(q) ==
  q[CHOOSE i \in 1..Len(q) :
      /\ q[i].type = "session.update"
      /\ \A j \in 1..Len(q) : q[j].type = "session.update" => j <= i]

C38_SavedPairIsPushedLast ==
  [][(/\ hist'.op = "selectLanguages"
      /\ sessionStatus = "CONNECTED"
      /\ SendChannelOpen)
       => /\ \E i \in 1..Len(sent') : sent'[i].type = "session.update"
          /\ LastSessionUpdate(sent').pair
               = <<selectedSourceLanguage', selectedTargetLanguage'>>
          /\ ~Truthy(detectedLanguage')
          /\ ~Truthy(secondLanguage')]_vars

\* The handler pushed the pair of the render before the selection, and the
\* effects after it pushed the saved pair (fr, en) last.
C38_StalePushOverwritten ==
  /\ hist.op = "selectLanguages"
  /\ sessionStatus = "CONNECTED"
  /\ SendChannelOpen
  /\ selectedSourceLanguage = "fr"
  /\ selectedTargetLanguage = "en"
  /\ \E i \in SessionUpdates : sent[i].pair = <<"en", "es">>
  /\ LastSessionUpdate(sent).pair = <<"fr", "en">>
  /\ detectedLanguage = ""
  /\ secondLanguage = ""

\* C39: function-call outputs are transmitted in dispatch order.  While the
\* output of a call dispatched earlier is still outstanding (its custom tool
\* logic has not settled), the handling of a response.done transmits no
\* function_call_output; and of two calls dispatched from one response.done,
\* the later one's output is transmitted only after the earlier one's.
Dispatched(o) == o.type = "function_call" /\ o.name # "" /\ o.arguments # ""

C39_OutputsInDispatchOrder ==
  [][hist'.op = "response.done"
       => /\ (\E k \in CallIds : calls[k].state = "pending")
               => \A k \in CallIds : OutputsFor(sent', k) = {}
          /\ \A j1 \in 1..Len(Inbound'.output) :
               \A j2 \in 1..Len(Inbound'.output) :
                 LET o1 == Inbound'.output[j1]
                     o2 == Inbound'.output[j2]
                 IN (/\ j1 < j2
                     /\ Dispatched(o1)
                     /\ Dispatched(o2)
                     /\ calls'[o1.call_id].state # "threw"
                     /\ OutputsFor(sent', o2.call_id) # {})
                      => \E i1 \in OutputsFor(sent', o1.call_id) :
                           \A i2 \in OutputsFor(sent', o2.call_id) : i1 < i2]_vars

====
